---- MODULE Spec2Model ----
(***************************************************************************)
(* DanceCoach: the pose-comparison and temporal-smoothing pipeline.        *)
(*                                                                         *)
(*   utils/PoseComparison.ts   calculateAngle, calculateTorsoLean,         *)
(*                             scoreAngle, landmarkVisible, comparePoses   *)
(*   utils/ScoreSmoother.ts    ScoreSmoother (update, reset)               *)
(*   utils/LandmarkSmoother.ts LandmarkSmoother (smooth, reset)            *)
(*   components/CameraFeed.tsx the session effect and the detection loop   *)
(*                                                                         *)
(* Numbers.  The program computes in IEEE doubles; the model computes in   *)
(* fixed point:                                                            *)
(*   - a coordinate is an integer number of grid units of the frame;       *)
(*   - an angle is a whole number of degrees (acos to the nearest degree); *)
(*   - an angular difference handed to scoreAngle is counted in units of   *)
(*     1/DegDen degree;                                                    *)
(*   - a score s in [0,1] is the integer s * ScoreOne, and overallScore    *)
(*     (0..100) is the integer percent * ScoreOne.  ScoreOne is a multiple *)
(*     of 60 * DegDen * lcm(1..9), so scoreAngle and every mean over at    *)
(*     most nine angles are exact;                                         *)
(*   - a visibility is counted in tenths, NoVis standing for `undefined`;  *)
(*   - the blends of the two smoothers are rounded to the nearest unit.    *)
(***************************************************************************)
EXTENDS Integers, Sequences, FiniteSets, TLC

(***************************************************************************)
(* Bounds of the model.                                                    *)
(***************************************************************************)
DegDen == 2
MaxDiffDeg == 70
MaxUpdates == 3
MaxSmooths == 3
MaxFrames == 2
MaxSessions == 2
MaxNow == 3
MaxStamps == 3
MaxScale == 3
MaxFlips == 1
MaxDraws == 7
MaxMounts == 2

(***************************************************************************)
(* Program constants.                                                      *)
(***************************************************************************)
MIN_VISIBILITY == 5
ScoreAlphaNum == 3
ScoreAlphaDen == 25
LandmarkAlphaNum == 7
LandmarkAlphaDen == 20
NUM_LANDMARKS == 33

ScoreOne == 60 * DegDen * 2520
NoVis == 0 - 1

Regions == {"leftArm", "rightArm", "leftLeg", "rightLeg", "torso"}

(***************************************************************************)
(* Arithmetic helpers.                                                     *)
(***************************************************************************)
Abs(n) == IF n < 0 THEN 0 - n ELSE n

\* n / d rounded to the nearest integer (d > 0).
RoundDiv(n, d) == (n + (d \div 2)) \div d

\* A Record<string, number> without keys.
EmptyMap == [key \in {} |-> 0]

RECURSIVE SumSeq(_)
SumSeq(s) == IF s = << >> THEN 0 ELSE Head(s) + SumSeq(Tail(s))

(***************************************************************************)
(* PoseComparison.ts                                                       *)
(***************************************************************************)

\* landmarks[i] of a 0-indexed array; InBounds is `landmarks[i] !== undefined`.
InBounds(landmarks, i) == i >= 0 /\ i < Len(landmarks)
At(landmarks, i) == landmarks[i + 1]

\* cos^2 of (j - 1/2) degrees, j = 1..90, times 10^4: the boundaries between
\* whole degrees, for Math.acos to the nearest degree.
CosSqScale == 10000
CosSqTable ==
  <<  9999, 9993, 9981, 9963, 9938, 9908, 9872, 9830, 9782, 9728,
      9668, 9603, 9532, 9455, 9373, 9286, 9193, 9096, 8993, 8886,
      8774, 8657, 8536, 8410, 8280, 8147, 8009, 7868, 7723, 7575,
      7424, 7270, 7113, 6954, 6792, 6628, 6462, 6294, 6125, 5954,
      5782, 5609, 5436, 5262, 5087, 4913, 4738, 4564, 4391, 4218,
      4046, 3875, 3706, 3538, 3372, 3208, 3046, 2887, 2730, 2576,
      2425, 2277, 2132, 1991, 1853, 1720, 1590, 1464, 1343, 1226,
      1114, 1007, 904, 807, 714, 627, 545, 468, 397, 332,
      272, 218, 170, 128, 92, 62, 37, 19, 7, 1 >>

\* (Math.acos(clamp(dot / sqrt(mm))) * 180) / Math.PI to the nearest degree,
\* for mm = |u|^2 * |v|^2 > 0 and dot = u . v: the number of boundaries
\* (j - 1/2) degrees, j = 1..180, that the angle has passed.
\* AcosDeg with the product of the magnitudes taken as 100.
AcosDeg_FixedMagnitude(dot, mm) ==
  Cardinality({ j \in 1..90 : dot <= 0 \/ dot * dot * CosSqScale <= CosSqTable[j] * 100 })
  + Cardinality({ j \in 1..90 : dot < 0 /\ dot * dot * CosSqScale >= CosSqTable[j] * 100 })

AcosDeg(dot, mm) ==
  Cardinality({ j \in 1..90 : dot <= 0 \/ dot * dot * CosSqScale <= CosSqTable[j] * mm })
  + Cardinality({ j \in 1..90 : dot < 0 /\ dot * dot * CosSqScale >= CosSqTable[j] * mm })

\* A z that is undefined, and a.z ?? 0.
NoZ == 0 - 100000
ZOf(p) == IF p.z = NoZ THEN 0 ELSE p.z

\* The largest finite double, on the scale of the grid: a sum of squares or a
\* product above it is Infinity.  NaN is the number that is not one.
DoubleMax == 1000000
NaN == 0 - 1

\* calculateAngle with the rays drawn from the origin instead of from b.
calculateAngle_FromOrigin(a, b, c) ==
  LET dot == a.x * c.x + a.y * c.y + ZOf(a) * ZOf(c)
      sqBA == a.x * a.x + a.y * a.y + ZOf(a) * ZOf(a)
      sqBC == c.x * c.x + c.y * c.y + ZOf(c) * ZOf(c)
  IN  IF sqBA = 0 \/ sqBC = 0 THEN 0 ELSE AcosDeg(dot, sqBA * sqBC)

\* calculateAngle without the test for a ray of zero magnitude.
calculateAngle_NoZeroTest(a, b, c) ==
  LET bax == a.x - b.x
      bay == a.y - b.y
      baz == ZOf(a) - ZOf(b)
      bcx == c.x - b.x
      bcy == c.y - b.y
      bcz == ZOf(c) - ZOf(b)
      dot == bax * bcx + bay * bcy + baz * bcz
      sqBA == bax * bax + bay * bay + baz * baz
      sqBC == bcx * bcx + bcy * bcy + bcz * bcz
  IN  IF sqBA > DoubleMax \/ sqBC > DoubleMax THEN NaN ELSE AcosDeg(dot, sqBA * sqBC)

\* magBA and magBC are Infinity when the sum of squares is; dot / Infinity is
\* 0 for a finite dot (acos gives 90 degrees) and NaN for an infinite one, as
\* for a dot that is NaN itself (Infinity - Infinity).
calculateAngle(a, b, c) ==
  LET bax == a.x - b.x
      bay == a.y - b.y
      baz == ZOf(a) - ZOf(b)
      bcx == c.x - b.x
      bcy == c.y - b.y
      bcz == ZOf(c) - ZOf(b)
      dot == bax * bcx + bay * bcy + baz * bcz
      sqBA == bax * bax + bay * bay + baz * baz
      sqBC == bcx * bcx + bcy * bcy + bcz * bcz
      dotFinite == /\ Abs(bax * bcx) <= DoubleMax
                   /\ Abs(bay * bcy) <= DoubleMax
                   /\ Abs(baz * bcz) <= DoubleMax
                   /\ Abs(bax * bcx + bay * bcy) <= DoubleMax
                   /\ Abs(dot) <= DoubleMax
  IN  IF sqBA = 0 \/ sqBC = 0 THEN 0
      ELSE IF sqBA > DoubleMax \/ sqBC > DoubleMax
           THEN IF dotFinite THEN 90 ELSE NaN
      ELSE AcosDeg(dot, sqBA * sqBC)

\* Math.abs(Math.atan2(dx, -dy)) in degrees: the angle between (dx, dy) and
\* straight up (0, -1).  The midpoints are halved sums; the halving scales dx
\* and dy alike and leaves the angle as it is.  With dx = dy = 0 the call is
\* Math.atan2(+0, -0), which is pi.
calculateTorsoLean(landmarks) ==
  IF \E i \in {11, 12, 23, 24} : ~InBounds(landmarks, i) THEN 0
  ELSE LET lShoulder == At(landmarks, 11)
           rShoulder == At(landmarks, 12)
           lHip == At(landmarks, 23)
           rHip == At(landmarks, 24)
           dx == (lShoulder.x + rShoulder.x) - (lHip.x + rHip.x)
           dy == (lShoulder.y + rShoulder.y) - (lHip.y + rHip.y)
       IN  IF dx = 0 /\ dy = 0 THEN 180 ELSE AcosDeg(0 - dy, dx * dx + dy * dy)

ANGLE_DEFINITIONS ==
  << [name |-> "Left Elbow",     indices |-> <<11, 13, 15>>, region |-> "leftArm"],
     [name |-> "Right Elbow",    indices |-> <<12, 14, 16>>, region |-> "rightArm"],
     [name |-> "Left Shoulder",  indices |-> <<13, 11, 23>>, region |-> "leftArm"],
     [name |-> "Right Shoulder", indices |-> <<14, 12, 24>>, region |-> "rightArm"],
     [name |-> "Left Knee",      indices |-> <<23, 25, 27>>, region |-> "leftLeg"],
     [name |-> "Right Knee",     indices |-> <<24, 26, 28>>, region |-> "rightLeg"],
     [name |-> "Left Hip",       indices |-> <<11, 23, 25>>, region |-> "leftLeg"],
     [name |-> "Right Hip",      indices |-> <<12, 24, 26>>, region |-> "rightLeg"] >>

\* scoreAngle with the last segment divided by 60 instead of 30: it ends at
\* 0.25 and drops to 0 at 60.
scoreAngle_Slope60(diff) ==
  IF diff < 15 * DegDen THEN ScoreOne
  ELSE IF diff < 30 * DegDen
       THEN ScoreOne - (((diff - 15 * DegDen) * ScoreOne) \div (15 * DegDen)) \div 2
  ELSE IF diff < 60 * DegDen
       THEN (ScoreOne \div 2) - (((diff - 30 * DegDen) * ScoreOne) \div (60 * DegDen)) \div 2
  ELSE 0

\* diff is counted in units of 1/DegDen degree; the result in units of 1/ScoreOne.
scoreAngle(diff) ==
  IF diff < 15 * DegDen THEN ScoreOne
  ELSE IF diff < 30 * DegDen
       THEN ScoreOne - (((diff - 15 * DegDen) * ScoreOne) \div (15 * DegDen)) \div 2
  ELSE IF diff < 60 * DegDen
       THEN (ScoreOne \div 2) - (((diff - 30 * DegDen) * ScoreOne) \div (30 * DegDen)) \div 2
  ELSE 0

\* landmarkVisible with > in place of >=.
landmarkVisible_Strict(landmarks, i) ==
  /\ InBounds(landmarks, i)
  /\ (IF At(landmarks, i).visibility = NoVis THEN 0 ELSE At(landmarks, i).visibility)
        > MIN_VISIBILITY

\* lm !== undefined && (lm.visibility ?? 0) >= MIN_VISIBILITY
landmarkVisible(landmarks, i) ==
  /\ InBounds(landmarks, i)
  /\ (IF At(landmarks, i).visibility = NoVis THEN 0 ELSE At(landmarks, i).visibility)
        >= MIN_VISIBILITY

\* One pass of the loop over ANGLE_DEFINITIONS, from entry k on: the entries
\* pushed to `angles`, in order.
RECURSIVE JointAngles(_, _, _)
JointAngles(refLandmarks, userLandmarks, k) ==
  IF k > Len(ANGLE_DEFINITIONS) THEN << >>
  ELSE LET def == ANGLE_DEFINITIONS[k]
           a == def.indices[1]
           b == def.indices[2]
           c == def.indices[3]
           skip == \/ ~landmarkVisible(refLandmarks, a)
                   \/ ~landmarkVisible(refLandmarks, b)
                   \/ ~landmarkVisible(refLandmarks, c)
                   \/ ~landmarkVisible(userLandmarks, a)
                   \/ ~landmarkVisible(userLandmarks, b)
                   \/ ~landmarkVisible(userLandmarks, c)
           refAngle == calculateAngle(At(refLandmarks, a), At(refLandmarks, b), At(refLandmarks, c))
           userAngle == calculateAngle(At(userLandmarks, a), At(userLandmarks, b), At(userLandmarks, c))
           diff == Abs(refAngle - userAngle)
           pushed == IF skip THEN << >>
                     ELSE << [name |-> def.name, refAngle |-> refAngle, userAngle |-> userAngle,
                              diff |-> diff, score |-> scoreAngle(diff * DegDen),
                              region |-> def.region] >>
       IN  pushed \o JointAngles(refLandmarks, userLandmarks, k + 1)

\* The torso-lean entry, pushed after the loop.
TorsoLeanAngles(refLandmarks, userLandmarks) ==
  LET refLean == calculateTorsoLean(refLandmarks)
      userLean == calculateTorsoLean(userLandmarks)
      leanDiff == Abs(refLean - userLean)
  IN  << [name |-> "Torso Lean", refAngle |-> refLean, userAngle |-> userLean,
          diff |-> leanDiff, score |-> scoreAngle(leanDiff * DegDen), region |-> "torso"] >>

\* RegionScoresOf dividing each region's sum by the number of all entries.
RegionScoresOf_DivByAll(angles) ==
  [r \in { angles[i].region : i \in 1..Len(angles) } |->
     SumSeq([i \in 1..Len(angles) |->
               IF angles[i].region = r THEN angles[i].score ELSE 0]) \div Len(angles)]

\* RegionScoresOf with the lowest score of each region in place of the mean.
RegionScoresOf_Lowest(angles) ==
  [r \in { angles[i].region : i \in 1..Len(angles) } |->
     CHOOSE s \in { angles[i].score : i \in { j \in 1..Len(angles) : angles[j].region = r } } :
       \A i \in 1..Len(angles) : angles[i].region = r => s <= angles[i].score]

\* regionBuckets / regionScores: the mean score of the entries of each region
\* that has entries.
RegionScoresOf(angles) ==
  LET bucket(r) == { i \in 1..Len(angles) : angles[i].region = r }
      total(r) == SumSeq([i \in 1..Len(angles) |->
                           IF angles[i].region = r THEN angles[i].score ELSE 0])
  IN  [r \in { angles[i].region : i \in 1..Len(angles) } |->
         total(r) \div Cardinality(bucket(r))]

\* OverallScoreOf as the mean of the region means.
OverallScoreOf_MeanOfRegions(angles) ==
  LET regions == { angles[i].region : i \in 1..Len(angles) }
      first(r) == CHOOSE i \in 1..Len(angles) : angles[i].region = r
  IN  (SumSeq([i \in 1..Len(angles) |->
                 IF i = first(angles[i].region)
                 THEN RegionScoresOf(angles)[angles[i].region] ELSE 0])
         \div Cardinality(regions)) * 100

\* OverallScoreOf left as a fraction of one.
OverallScoreOf_Fraction(angles) ==
  SumSeq([i \in 1..Len(angles) |-> angles[i].score]) \div Len(angles)

\* (sum of all scores / angles.length) * 100
OverallScoreOf(angles) ==
  (SumSeq([i \in 1..Len(angles) |-> angles[i].score]) \div Len(angles)) * 100

NullResult == [isNull |-> TRUE, angles |-> << >>, overallScore |-> 0, regionScores |-> EmptyMap]

\* comparePoses checking the length of the reference set only.
comparePoses_RefLengthOnly(refLandmarks, userLandmarks) ==
  IF Len(refLandmarks) < NUM_LANDMARKS THEN NullResult
  ELSE LET angles == JointAngles(refLandmarks, userLandmarks, 1)
                       \o TorsoLeanAngles(refLandmarks, userLandmarks)
       IN  IF Len(angles) = 0 THEN NullResult
           ELSE [isNull |-> FALSE, angles |-> angles,
                 overallScore |-> OverallScoreOf(angles),
                 regionScores |-> RegionScoresOf(angles)]

\* comparePoses with the torso-lean entry pushed before the loop.
comparePoses_LeanFirst(refLandmarks, userLandmarks) ==
  IF Len(refLandmarks) < NUM_LANDMARKS \/ Len(userLandmarks) < NUM_LANDMARKS THEN NullResult
  ELSE LET angles == TorsoLeanAngles(refLandmarks, userLandmarks)
                       \o JointAngles(refLandmarks, userLandmarks, 1)
       IN  [isNull |-> FALSE, angles |-> angles,
            overallScore |-> OverallScoreOf(angles),
            regionScores |-> RegionScoresOf(angles)]

comparePoses(refLandmarks, userLandmarks) ==
  IF Len(refLandmarks) < NUM_LANDMARKS \/ Len(userLandmarks) < NUM_LANDMARKS THEN NullResult
  ELSE LET angles == JointAngles(refLandmarks, userLandmarks, 1)
                       \o TorsoLeanAngles(refLandmarks, userLandmarks)
       IN  IF Len(angles) = 0 THEN NullResult
           ELSE [isNull |-> FALSE, angles |-> angles,
                 overallScore |-> OverallScoreOf(angles),
                 regionScores |-> RegionScoresOf(angles)]

(***************************************************************************)
(* SkeletonRenderer.ts: the colour of a score.                             *)
(***************************************************************************)
GREEN == "#00ff88"
YELLOW == "#ffaa00"
RED == "#ff2d44"

\* scoreToColor with green reserved for a score of 1.0.
scoreToColor_GreenAtOne(score) ==
  IF score >= ScoreOne THEN GREEN
  ELSE IF 2 * score >= ScoreOne THEN YELLOW
  ELSE RED

\* score >= 0.8, score >= 0.5, otherwise.
scoreToColor(score) ==
  IF 5 * score >= 4 * ScoreOne THEN GREEN
  ELSE IF 2 * score >= ScoreOne THEN YELLOW
  ELSE RED

\* The same tiers as rgba(r,g,b,alpha); alpha in tenths.
scoreToRgba(score, alpha) ==
  IF 5 * score >= 4 * ScoreOne THEN [rgb |-> <<0, 255, 136>>, alpha |-> alpha]
  ELSE IF 2 * score >= ScoreOne THEN [rgb |-> <<255, 170, 0>>, alpha |-> alpha]
  ELSE [rgb |-> <<255, 45, 68>>, alpha |-> alpha]

(***************************************************************************)
(* ScoreSmoother.ts                                                        *)
(***************************************************************************)

\* alpha * new + (1 - alpha) * prev with the blend reversed.
ScoreBlend_Reversed(new, prev) ==
  RoundDiv((ScoreAlphaDen - ScoreAlphaNum) * new + ScoreAlphaNum * prev, ScoreAlphaDen)

\* new + (1 - alpha) * prev: the factor alpha left out.
ScoreBlend_NoAlpha(new, prev) ==
  RoundDiv(ScoreAlphaDen * new + (ScoreAlphaDen - ScoreAlphaNum) * prev, ScoreAlphaDen)

\* this.alpha * new + (1 - this.alpha) * prev, alpha = 0.12 = 3/25.
ScoreBlend(new, prev) ==
  RoundDiv(ScoreAlphaNum * new + (ScoreAlphaDen - ScoreAlphaNum) * prev, ScoreAlphaDen)

\* A fresh ScoreSmoother.
NewScoreSmoother == [smoothedRegions |-> EmptyMap, smoothedOverall |-> 0, hasData |-> FALSE]

\* update() that blends the overall score only when regionScores has keys.
ScoreSmootherUpdate_OverallNeedsKeys(self, regionScores, overallScore) ==
  IF ~self.hasData
  THEN [smoothedRegions |-> regionScores, smoothedOverall |-> overallScore, hasData |-> TRUE]
  ELSE [smoothedRegions |->
          [key \in (DOMAIN self.smoothedRegions) \cup (DOMAIN regionScores) |->
             IF key \in DOMAIN regionScores
             THEN LET prev == IF key \in DOMAIN self.smoothedRegions
                              THEN self.smoothedRegions[key] ELSE regionScores[key]
                  IN  ScoreBlend(regionScores[key], prev)
             ELSE self.smoothedRegions[key]],
        smoothedOverall |-> IF DOMAIN regionScores = {}
                            THEN self.smoothedOverall
                            ELSE ScoreBlend(overallScore, self.smoothedOverall),
        hasData |-> TRUE]

\* update() whose `prev` falls back to 0 for a key the object does not hold.
ScoreSmootherUpdate_NewKeyFromZero(self, regionScores, overallScore) ==
  IF ~self.hasData
  THEN [smoothedRegions |-> regionScores, smoothedOverall |-> overallScore, hasData |-> TRUE]
  ELSE [smoothedRegions |->
          [key \in (DOMAIN self.smoothedRegions) \cup (DOMAIN regionScores) |->
             IF key \in DOMAIN regionScores
             THEN LET prev == IF key \in DOMAIN self.smoothedRegions
                              THEN self.smoothedRegions[key] ELSE 0
                  IN  ScoreBlend(regionScores[key], prev)
             ELSE self.smoothedRegions[key]],
        smoothedOverall |-> ScoreBlend(overallScore, self.smoothedOverall),
        hasData |-> TRUE]

\* update() that keeps only the keys of the incoming regionScores.
ScoreSmootherUpdate_DropsAbsent(self, regionScores, overallScore) ==
  IF ~self.hasData
  THEN [smoothedRegions |-> regionScores, smoothedOverall |-> overallScore, hasData |-> TRUE]
  ELSE [smoothedRegions |->
          [key \in DOMAIN regionScores |->
             LET prev == IF key \in DOMAIN self.smoothedRegions
                         THEN self.smoothedRegions[key] ELSE regionScores[key]
             IN  ScoreBlend(regionScores[key], prev)],
        smoothedOverall |-> ScoreBlend(overallScore, self.smoothedOverall),
        hasData |-> TRUE]

\* update(): the object after the call.
ScoreSmootherUpdate(self, regionScores, overallScore) ==
  IF ~self.hasData
  THEN [smoothedRegions |-> regionScores, smoothedOverall |-> overallScore, hasData |-> TRUE]
  ELSE [smoothedRegions |->
          [key \in (DOMAIN self.smoothedRegions) \cup (DOMAIN regionScores) |->
             IF key \in DOMAIN regionScores
             THEN LET prev == IF key \in DOMAIN self.smoothedRegions
                              THEN self.smoothedRegions[key] ELSE regionScores[key]
                  IN  ScoreBlend(regionScores[key], prev)
             ELSE self.smoothedRegions[key]],
        smoothedOverall |-> ScoreBlend(overallScore, self.smoothedOverall),
        hasData |-> TRUE]

\* update(): what the call returns, read off the object after the call.
ScoreSmootherReturn(self) ==
  [regions |-> self.smoothedRegions, overall |-> self.smoothedOverall]

\* reset() that leaves the flag hasData as it is.
ScoreSmootherReset_KeepsFlag(self) ==
  [smoothedRegions |-> EmptyMap, smoothedOverall |-> 0, hasData |-> self.hasData]

\* reset(): the object after the call.
ScoreSmootherReset(self) ==
  [smoothedRegions |-> EmptyMap, smoothedOverall |-> 0, hasData |-> FALSE]

(***************************************************************************)
(* LandmarkSmoother.ts                                                     *)
(***************************************************************************)

\* A nullable landmark array: null, or the array.
NullLandmarks == [isNull |-> TRUE, landmarks |-> << >>]
SomeLandmarks(landmarks) == [isNull |-> FALSE, landmarks |-> landmarks]

\* The blend with alpha = 1.35: it goes past raw.
LandmarkBlend_Overshoot(raw, prev) ==
  RoundDiv((LandmarkAlphaDen + LandmarkAlphaNum) * raw - LandmarkAlphaNum * prev,
           LandmarkAlphaDen)

\* this.alpha * raw + (1 - this.alpha) * prev, alpha = 0.35 = 7/20.
LandmarkBlend(raw, prev) ==
  RoundDiv(LandmarkAlphaNum * raw + (LandmarkAlphaDen - LandmarkAlphaNum) * prev,
           LandmarkAlphaDen)

\* A fresh LandmarkSmoother.
NewLandmarkSmoother == [previous |-> NullLandmarks]

\* smooth(): what the call returns.
LandmarkSmootherSmooth(self, landmarks) ==
  IF self.previous.isNull \/ Len(self.previous.landmarks) # Len(landmarks)
  THEN landmarks
  ELSE [i \in 1..Len(landmarks) |->
          [x |-> LandmarkBlend(landmarks[i].x, self.previous.landmarks[i].x),
           y |-> LandmarkBlend(landmarks[i].y, self.previous.landmarks[i].y),
           z |-> LandmarkBlend(landmarks[i].z, self.previous.landmarks[i].z),
           visibility |-> landmarks[i].visibility]]

\* smooth() that, on a set of another length, leaves the stored set as it is.
LandmarkSmootherAfterSmooth_KeepsOlder(self, landmarks) ==
  IF ~self.previous.isNull /\ Len(self.previous.landmarks) # Len(landmarks)
  THEN self
  ELSE [previous |-> SomeLandmarks(LandmarkSmootherSmooth(self, landmarks))]

\* smooth() that stores the raw input as `previous` on every call.
LandmarkSmootherAfterSmooth_StoresRaw(self, landmarks) ==
  [previous |-> SomeLandmarks(landmarks)]

\* smooth(): the object after the call; on both paths it holds a copy of what
\* the call returns.
LandmarkSmootherAfterSmooth(self, landmarks) ==
  [previous |-> SomeLandmarks(LandmarkSmootherSmooth(self, landmarks))]

\* reset() that leaves `previous` as it is.
LandmarkSmootherReset_KeepsPrevious(self) == self

\* reset(): the object after the call.
LandmarkSmootherReset(self) == [previous |-> NullLandmarks]

(***************************************************************************)
(* State.                                                                  *)
(***************************************************************************)
VARIABLES
  diffs,            \* scoreAngle: the differences handed to it
  colors,           \* scoreToColor, scoreToRgba: what they returned for the scores
  scores,           \* scoreAngle: what it returned for them, in order
  cmpRef,           \* comparePoses: the argument refLandmarks
  cmpUser,          \* comparePoses: the argument userLandmarks
  cmpResult,        \* comparePoses: what it returned
  cmpDone,          \* comparePoses: has returned
  scoreSmoother,    \* ScoreSmoother: smoothedRegions, smoothedOverall, hasData
  smCall,           \* the last call on the ScoreSmoother: its arguments, what it
                    \* returned, the object before it, and the call before it
  smCount,          \* update calls made so far
  landmarkSmoother, \* LandmarkSmoother: previous
  lmCall,           \* the last call on the LandmarkSmoother: its argument, what it
                    \* returned, the object before it, and the call before it
  lmCount,          \* smooth calls made so far
  lmTwin,           \* a LandmarkSmoother constructed anew at the last reset and
                    \* handed the same smooth calls since
  isRunning,        \* CameraFeed: the prop isRunning
  cameraState,      \* CameraFeed: "idle", "requesting", "active" or "error"
  pendingStarts,    \* CameraFeed: startCamera calls awaiting getUserMedia / play
  refLandmarksRef,  \* CameraFeed: refLandmarksRef.current
  emitted,          \* CameraFeed: the onComparisonUpdate calls of the last loop iteration
  frame,            \* CameraFeed: what the last loop iteration found and did
  rafPending,       \* CameraFeed: a requestAnimationFrame(loop) callback is pending
  frames,           \* loop iterations run so far
  sessions,         \* sessions started so far
  targetScoreRef,   \* App: targetScoreRef.current
  displayScoreRef,  \* App: displayScoreRef.current
  displayScore,     \* App: the state displayScore, what the page shows
  appLast,          \* App: the last step taken, and the two refs before it
  lastTimestampRef, \* lastTimestampRef.current of each detection loop
  stamps,           \* per detection loop: the clock readings taken and the
                    \* timestamps handed to detect, in order
  anglePoints,      \* calculateAngle: the arguments a, b, c
  angleResult,      \* calculateAngle: what it returned
  xform,            \* a change of coordinates applied to both sets of a comparison
  xfResult,         \* comparePoses: what it returned for the two changed sets
  camera,           \* CameraFeed: streamRef.current, the camera streams left
                    \* running without a reference, the startCamera calls made,
                    \* and the instances of the detection loop
  trailBuffers,     \* SkeletonRenderer: the Map trailBuffers
  refVideo,         \* ReferenceVideo with App and CameraFeed around it
  detector          \* usePoseDetector: the effect's runs, landmarkerRef, isLoading, error

vars == << diffs, scores, colors, cmpRef, cmpUser, cmpResult, cmpDone,
           scoreSmoother, smCall, smCount, landmarkSmoother, lmCall, lmCount, lmTwin,
           isRunning, cameraState, pendingStarts, refLandmarksRef, emitted, frame,
           rafPending, frames, sessions,
           targetScoreRef, displayScoreRef, displayScore, appLast,
           lastTimestampRef, stamps, anglePoints, angleResult, xform, xfResult,
           camera, trailBuffers, refVideo, detector >>

scoreVars == << diffs, scores, colors >>
cmpVars == << cmpRef, cmpUser, cmpResult, cmpDone >>
smootherVars == << scoreSmoother, smCall, smCount >>
landmarkVars == << lmCall, lmCount, lmTwin >>
feedVars == << landmarkSmoother, isRunning, cameraState, pendingStarts, refLandmarksRef,
               emitted, frame, rafPending, frames, sessions, camera >>
appVars == << targetScoreRef, displayScoreRef, displayScore, appLast >>
clockVars == << lastTimestampRef, stamps >>
angleVars == << anglePoints, angleResult >>
transformVars == << xform, xfResult >>
sideVars == << trailBuffers, refVideo, detector >>

(***************************************************************************)
(* Landmark sets the detector can hand over.                               *)
(***************************************************************************)

\* The landmarks the catalog of measurements reads.
UsedLandmarks == {11, 12, 13, 14, 15, 16, 23, 24, 25, 26, 27, 28}

\* A standing body, on a grid of 10 x 10 x 10 units (y grows downwards).
StandPoint(i) ==
  CASE i = 11 -> <<6, 2, 1>> [] i = 12 -> <<4, 2, 1>>
    [] i = 13 -> <<7, 4, 1>> [] i = 14 -> <<3, 4, 1>>
    [] i = 15 -> <<7, 6, 0>> [] i = 16 -> <<3, 6, 0>>
    [] i = 23 -> <<6, 6, 1>> [] i = 24 -> <<4, 6, 1>>
    [] i = 25 -> <<6, 8, 1>> [] i = 26 -> <<4, 8, 1>>
    [] i = 27 -> <<6, 10, 2>> [] i = 28 -> <<4, 10, 2>>
    [] OTHER -> <<5, 1, 1>>

\* The same body with the left forearm folded across the chest.
ArmInPoint(i) == IF i = 15 THEN <<5, 4, 1>> ELSE StandPoint(i)

\* The same body leaning: both shoulders, elbows and wrists shifted sideways.
LeanPoint(i) ==
  IF i \in {11, 12, 13, 14, 15, 16}
  THEN << StandPoint(i)[1] + 2, StandPoint(i)[2], StandPoint(i)[3] >>
  ELSE StandPoint(i)

\* The same body with the left knee bent.
KneePoint(i) == IF i = 27 THEN <<8, 9, 2>> ELSE StandPoint(i)

\* The same body with the left wrist moved so that the left elbow is at 90
\* and at 135 degrees: the forearm is at right angles to the upper arm
\* (-1, -2, 0), and at cos^2 = 1/2 on its far side.
Elbow90Point(i) == IF i = 15 THEN <<5, 5, 1>> ELSE StandPoint(i)
Elbow135Point(i) == IF i = 15 THEN <<6, 7, 1>> ELSE StandPoint(i)

PoseNames == {"stand", "armIn", "lean", "knee"}
ElbowPoses == {"elbow90", "elbow135"}

PosePoint(pose, i) ==
  CASE pose = "stand" -> StandPoint(i)
    [] pose = "armIn" -> ArmInPoint(i)
    [] pose = "lean" -> LeanPoint(i)
    [] pose = "knee" -> KneePoint(i)
    [] pose = "elbow90" -> Elbow90Point(i)
    [] pose = "elbow135" -> Elbow135Point(i)

\* A landmark set of `len` points of the pose; the landmarks of `hidden` carry
\* the visibility `low`, the others the visibility `high`.
LandmarkSet(pose, len, hidden, low, high) ==
  [k \in 1..len |->
     [x |-> PosePoint(pose, k - 1)[1], y |-> PosePoint(pose, k - 1)[2],
      z |-> PosePoint(pose, k - 1)[3],
      visibility |-> IF (k - 1) \in hidden THEN low ELSE high]]

\* Which landmarks are hidden: none, one, the four of the torso, the four
\* elbows and knees, or the two together.
HiddenSets ==
  {{}} \cup {{i} : i \in UsedLandmarks}
       \cup {{11, 12, 23, 24}, {13, 14, 25, 26}, {11, 12, 13, 14, 23, 24, 25, 26}}

\* (low, high) visibilities: 0.4 / 1.0, undefined / 0.5, 0 / 1.0.
VisibilityLevels == {<<4, 10>>, <<NoVis, 5>>, <<0, 10>>}

\* Sets of the wrong length: empty, one short, and one long.
OddLengthSets ==
  { LandmarkSet("stand", len, {}, 0, 10) : len \in {0, NUM_LANDMARKS - 1, NUM_LANDMARKS + 1} }

FullSets(poses) ==
  { LandmarkSet(pose, NUM_LANDMARKS, hidden, lv[1], lv[2]) :
      pose \in poses, hidden \in HiddenSets, lv \in VisibilityLevels }

\* Sets of 33 landmarks, every one with visibility 1.0.
VisibleSets(poses) == { LandmarkSet(pose, NUM_LANDMARKS, {}, 0, 10) : pose \in poses }

(***************************************************************************)
(* scoreAngle on its own: two differences are drawn, and scored in turn.   *)
(***************************************************************************)
InitScore ==
  /\ diffs \in { <<d1, d2>> : d1, d2 \in 0..(MaxDiffDeg * DegDen) }
  /\ scores = << >>
  /\ colors = << >>

ScoreStep ==
  /\ Len(scores) < Len(diffs)
  /\ scores' = Append(scores, scoreAngle(diffs[Len(scores) + 1]))
  /\ UNCHANGED << diffs, colors >>

\* The score is coloured as drawSkeleton colours a region score: the bone
\* colour, and its glow with alpha 0.3.
ColorStep ==
  /\ Len(colors) < Len(scores)
  /\ colors' = Append(colors, [color |-> scoreToColor(scores[Len(colors) + 1]),
                               glow |-> scoreToRgba(scores[Len(colors) + 1], 3)])
  /\ UNCHANGED << diffs, scores >>

(***************************************************************************)
(* comparePoses on its own: a reference set and a live set are drawn, and  *)
(* compared.                                                               *)
(***************************************************************************)
InitCompare ==
  /\ cmpRef \in FullSets({"stand"}) \cup OddLengthSets
                 \cup VisibleSets(PoseNames \cup ElbowPoses)
  /\ cmpUser \in FullSets(PoseNames) \cup OddLengthSets \cup VisibleSets(ElbowPoses)
  /\ cmpResult = NullResult
  /\ cmpDone = FALSE

CompareStep ==
  /\ ~cmpDone
  /\ cmpResult' = comparePoses(cmpRef, cmpUser)
  /\ cmpDone' = TRUE
  /\ UNCHANGED << cmpRef, cmpUser >>

(***************************************************************************)
(* The ScoreSmoother on its own: update and reset calls in any order.      *)
(***************************************************************************)

\* The record of a call, without the call before it.
CallOnly(call) ==
  [op |-> call.op, regionScores |-> call.regionScores, overallScore |-> call.overallScore,
   regions |-> call.regions, overall |-> call.overall, before |-> call.before]

NoCall ==
  [op |-> "none", regionScores |-> EmptyMap, overallScore |-> 0,
   regions |-> EmptyMap, overall |-> 0, before |-> NewScoreSmoother]

\* scoreSmoother.update(regionScores, overallScore), and the record of it.
DoScoreUpdate(regionScores, overallScore) ==
  LET after == ScoreSmootherUpdate(scoreSmoother, regionScores, overallScore)
  IN  /\ scoreSmoother' = after
      /\ smCall' = [op |-> "update", regionScores |-> regionScores,
                    overallScore |-> overallScore,
                    regions |-> ScoreSmootherReturn(after).regions,
                    overall |-> ScoreSmootherReturn(after).overall,
                    before |-> scoreSmoother, prior |-> CallOnly(smCall)]
      /\ smCount' = smCount + 1

\* scoreSmoother.reset(), and the record of it.
DoScoreReset ==
  /\ scoreSmoother' = ScoreSmootherReset(scoreSmoother)
  /\ smCall' = [op |-> "reset", regionScores |-> EmptyMap, overallScore |-> 0,
                regions |-> EmptyMap, overall |-> 0,
                before |-> scoreSmoother, prior |-> CallOnly(smCall)]
  /\ UNCHANGED smCount

\* The region-score mappings and overall scores handed to update.
SmootherKeys == {"leftArm", "torso"}
SmootherMaps ==
  UNION { [keys -> {ScoreOne \div 4, ScoreOne}] : keys \in SUBSET SmootherKeys }
SmootherOveralls == {25 * ScoreOne, 100 * ScoreOne}

InitSmoother ==
  /\ scoreSmoother = NewScoreSmoother
  /\ smCall = [op |-> "none", regionScores |-> EmptyMap, overallScore |-> 0,
               regions |-> EmptyMap, overall |-> 0,
               before |-> NewScoreSmoother, prior |-> NoCall]
  /\ smCount = 0

SmUpdate ==
  /\ smCount < MaxUpdates
  /\ \E regionScores \in SmootherMaps, overallScore \in SmootherOveralls :
        DoScoreUpdate(regionScores, overallScore)
  /\ UNCHANGED << scoreVars, cmpVars, appVars, clockVars, angleVars, transformVars, sideVars,
                  landmarkVars, feedVars >>

SmReset ==
  /\ DoScoreReset
  /\ UNCHANGED << scoreVars, cmpVars, appVars, clockVars, angleVars, transformVars, sideVars,
                  landmarkVars, feedVars >>

(***************************************************************************)
(* The LandmarkSmoother on its own: smooth and reset calls in any order.   *)
(***************************************************************************)

\* The record of a call, without the call before it.
LmCallOnly(call) ==
  [op |-> call.op, landmarks |-> call.landmarks, returned |-> call.returned,
   twinReturned |-> call.twinReturned, before |-> call.before,
   run |-> call.run, runCleared |-> call.runCleared,
   sinceReset |-> call.sinceReset, wasReset |-> call.wasReset]

NoLmCall ==
  [op |-> "none", landmarks |-> << >>, returned |-> << >>, twinReturned |-> << >>,
   before |-> NewLandmarkSmoother, run |-> 0, runCleared |-> FALSE,
   sinceReset |-> 0, wasReset |-> FALSE]

\* landmarkSmoother.smooth(landmarks), and the record of it.  `run` counts the
\* consecutive smooth calls with this same argument, and `runCleared` tells
\* whether the first of them found no stored set; `sinceReset` counts the
\* smooth calls since the last reset, and `wasReset` tells whether a reset
\* has found a stored set.
DoSmooth(landmarks) ==
  LET sameAsLast == lmCall.op = "smooth" /\ lmCall.landmarks = landmarks
  IN  /\ landmarkSmoother' = LandmarkSmootherAfterSmooth(landmarkSmoother, landmarks)
      /\ lmTwin' = LandmarkSmootherAfterSmooth(lmTwin, landmarks)
      /\ lmCall' = [op |-> "smooth", landmarks |-> landmarks,
                    returned |-> LandmarkSmootherSmooth(landmarkSmoother, landmarks),
                    twinReturned |-> LandmarkSmootherSmooth(lmTwin, landmarks),
                    before |-> landmarkSmoother,
                    run |-> IF sameAsLast THEN lmCall.run + 1 ELSE 1,
                    runCleared |-> IF sameAsLast THEN lmCall.runCleared
                                   ELSE landmarkSmoother.previous.isNull,
                    sinceReset |-> lmCall.sinceReset + 1, wasReset |-> lmCall.wasReset,
                    prior |-> LmCallOnly(lmCall)]
      /\ lmCount' = lmCount + 1

\* landmarkSmoother.reset(), and the record of it; the twin is constructed anew.
DoLandmarkReset ==
  /\ landmarkSmoother' = LandmarkSmootherReset(landmarkSmoother)
  /\ lmTwin' = NewLandmarkSmoother
  /\ lmCall' = [op |-> "reset", landmarks |-> << >>, returned |-> << >>,
                twinReturned |-> << >>, before |-> landmarkSmoother,
                run |-> 0, runCleared |-> FALSE, sinceReset |-> 0,
                wasReset |-> lmCall.wasReset \/ ~landmarkSmoother.previous.isNull,
                prior |-> LmCallOnly(lmCall)]
  /\ UNCHANGED lmCount

\* The landmark sets handed to smooth: none, one or two points.
PointA == [x |-> 0, y |-> 10, z |-> 4, visibility |-> 10]
PointB == [x |-> 10, y |-> 0, z |-> 6, visibility |-> 4]
PointC == [x |-> 3, y |-> 3, z |-> 0, visibility |-> NoVis]
SmoothInputs ==
  { << >>, <<PointA>>, <<PointB>>, <<PointA, PointB>>, <<PointB, PointA>>,
    <<PointC, PointB>> }

InitLandmark ==
  /\ lmCall = [op |-> "none", landmarks |-> << >>, returned |-> << >>,
               twinReturned |-> << >>, before |-> NewLandmarkSmoother,
               run |-> 0, runCleared |-> FALSE, sinceReset |-> 0, wasReset |-> FALSE,
               prior |-> NoLmCall]
  /\ lmCount = 0
  /\ lmTwin = NewLandmarkSmoother

LmSmooth ==
  /\ lmCount < MaxSmooths
  /\ \E landmarks \in SmoothInputs : DoSmooth(landmarks)
  /\ UNCHANGED << scoreVars, cmpVars, appVars, clockVars, angleVars, transformVars, sideVars,
                  smootherVars, isRunning, cameraState,
                  pendingStarts, refLandmarksRef, emitted, frame, rafPending, frames,
                  sessions, camera >>

LmReset ==
  /\ DoLandmarkReset
  /\ UNCHANGED << scoreVars, cmpVars, appVars, clockVars, angleVars, transformVars, sideVars,
                  smootherVars, isRunning, cameraState,
                  pendingStarts, refLandmarksRef, emitted, frame, rafPending, frames,
                  sessions, camera >>

(***************************************************************************)
(* CameraFeed.tsx: the session effect, startCamera, the reference-landmark *)
(* effect and the detection loop.                                          *)
(***************************************************************************)

\* What detect() hands the loop for the live body: sets of 33 landmarks, a
\* set of 34 and a set of 32.
LiveSets ==
  { LandmarkSet("stand", NUM_LANDMARKS, {}, 4, 10),
    LandmarkSet("lean", NUM_LANDMARKS, {25}, 4, 10),
    LandmarkSet("knee", NUM_LANDMARKS, {11, 12, 23, 24}, 4, 10),
    LandmarkSet("lean", NUM_LANDMARKS + 1, {}, 4, 10),
    LandmarkSet("stand", NUM_LANDMARKS - 1, {}, 4, 10) }

\* detect(): null, a result without poses, or a result whose first pose is a
\* live set.
DetectResults ==
  { [isNull |-> TRUE, landmarks |-> << >>], [isNull |-> FALSE, landmarks |-> << >>] }
    \cup { [isNull |-> FALSE, landmarks |-> << set >>] : set \in LiveSets }

\* The prop referenceLandmarks: null, or the landmarks of the reference video.
ReferenceValues ==
  { NullLandmarks,
    SomeLandmarks(LandmarkSet("stand", NUM_LANDMARKS, {}, 4, 10)),
    SomeLandmarks(LandmarkSet("stand", NUM_LANDMARKS, {13, 14, 25, 26}, 4, 10)) }

NoEmission == [calls |-> 0, result |-> NullResult]
Emission(result) == [calls |-> 1, result |-> result]

\* streamRef.current.getTracks().forEach((t) => t.stop()): the stream of the
\* ref is "live" or "stopped", or the ref is "null".
StopTracks(streamRef) == IF streamRef = "live" THEN "stopped" ELSE streamRef

\* startCamera storing a stream it was handed without looking at the ref:
\* a stream that was still running stays running, and nothing refers to it.
StoredStream(cam) ==
  [cam EXCEPT !.streamRef = "live",
              !.strays = IF cam.streamRef = "live" THEN @ + 1 ELSE @]

\* The cleanup of the detection-loop effect leaving `running` as it is.
CleanedLoop_KeepsRunning(cam) == [cam EXCEPT !.rafOwner = 0]

\* The cleanup of the detection-loop effect: running = false and
\* cancelAnimationFrame(animFrameRef.current).
CleanedLoop(cam) == [cam EXCEPT !.running = {}, !.rafOwner = 0]

\* The body of the detection-loop effect after cameraState or isRunning has
\* changed: with both in place a new instance of the loop, with its own
\* `running`, requests its first frame.
StartedLoop(cam, live) ==
  IF live
  THEN [cam EXCEPT !.loops = @ + 1, !.running = @ \cup {cam.loops + 1},
                   !.rafOwner = cam.loops + 1]
  ELSE cam

NoCamera ==
  [streamRef |-> "null", strays |-> 0, flips |-> 0, loops |-> 0, running |-> {},
   rafOwner |-> 0]

\* What a loop iteration found and did: whether getContext("2d") gave a
\* context, whether detect() gave a pose, whether refLandmarksRef.current was
\* set; the raw and the smoothed live set, the set handed to comparePoses and
\* what comparePoses returned; the arguments of scoreSmoother.update; the
\* numbers of smooth, comparePoses and update calls of the iteration; and the
\* numbers of smooth and update calls since the session began; whether the
\* session was running with the camera active, and which instance of the loop
\* the iteration belonged to.
NoFrame ==
  [ran |-> FALSE, ctx |-> FALSE, detected |-> FALSE, hadRef |-> FALSE,
   raw |-> NullLandmarks, smoothed |-> NullLandmarks, compared |-> NullLandmarks,
   comparison |-> NullResult, updateRegions |-> EmptyMap, updateOverall |-> 0,
   smoothCalls |-> 0, compareCalls |-> 0, updateCalls |-> 0,
   smoothsInSession |-> 0, updatesInSession |-> 0,
   live |-> FALSE, loop |-> 0]

InitFeed ==
  /\ landmarkSmoother = NewLandmarkSmoother
  /\ isRunning = FALSE
  /\ cameraState = "idle"
  /\ pendingStarts = 0
  /\ refLandmarksRef = NullLandmarks
  /\ emitted = NoEmission
  /\ frame = NoFrame
  /\ rafPending = FALSE
  /\ frames = 0
  /\ sessions = 0
  /\ camera = NoCamera

\* isRunning becomes true: the session effect calls startCamera, which sets
\* cameraState to "requesting" and awaits getUserMedia; a loop that was live
\* is cleaned up.
StartSession ==
  /\ ~isRunning
  /\ sessions < MaxSessions
  /\ isRunning' = TRUE
  /\ sessions' = sessions + 1
  /\ cameraState' = "requesting"
  /\ pendingStarts' = pendingStarts + 1
  /\ rafPending' = FALSE
  /\ frame' = NoFrame
  /\ camera' = [CleanedLoop(camera) EXCEPT !.streamRef = StopTracks(@)]
  /\ UNCHANGED << scoreVars, cmpVars, appVars, clockVars, angleVars, transformVars, sideVars,
                  smootherVars, landmarkVars, landmarkSmoother,
                  refLandmarksRef, emitted, frames >>

\* startCamera: getUserMedia and video.play() have resolved: the stream is
\* stored in streamRef and cameraState becomes "active".  With isRunning, and
\* cameraState not "active" before, the detection-loop effect starts a loop.
CameraStarted ==
  /\ pendingStarts > 0
  /\ pendingStarts' = pendingStarts - 1
  /\ cameraState' = "active"
  /\ rafPending' = isRunning
  /\ camera' = StartedLoop(StoredStream(camera), isRunning /\ cameraState # "active")
  /\ UNCHANGED << scoreVars, cmpVars, appVars, clockVars, angleVars, transformVars, sideVars,
                  smootherVars, landmarkVars, landmarkSmoother,
                  isRunning, refLandmarksRef, emitted, frame, frames, sessions >>

\* startCamera: getUserMedia has rejected, or it has resolved, the stream is
\* stored, and video.play() has rejected.
CameraFailed ==
  /\ pendingStarts > 0
  /\ pendingStarts' = pendingStarts - 1
  /\ cameraState' = "error"
  /\ rafPending' = FALSE
  /\ \E gotStream \in BOOLEAN :
        camera' = CleanedLoop(IF gotStream THEN StoredStream(camera) ELSE camera)
  /\ UNCHANGED << scoreVars, cmpVars, appVars, clockVars, angleVars, transformVars, sideVars,
                  smootherVars, landmarkVars, landmarkSmoother,
                  isRunning, refLandmarksRef, emitted, frame, frames, sessions >>

\* The session effect with isRunning false, leaving the LandmarkSmoother as
\* it is.
StopSession_NoLandmarkReset ==
  /\ isRunning
  /\ isRunning' = FALSE
  /\ cameraState' = "idle"
  /\ rafPending' = FALSE
  /\ camera' = [CleanedLoop(camera) EXCEPT !.streamRef = "null"]
  /\ DoScoreReset
  /\ UNCHANGED << scoreVars, cmpVars, appVars, clockVars, angleVars, transformVars, sideVars,
                  landmarkVars, landmarkSmoother, pendingStarts,
                  refLandmarksRef, emitted, frame, frames, sessions >>

\* isRunning becomes false: the loop is cleaned up, and the session effect
\* sets cameraState to "idle" and resets both smoothers.
StopSession ==
  /\ isRunning
  /\ isRunning' = FALSE
  /\ cameraState' = "idle"
  /\ rafPending' = FALSE
  /\ camera' = [CleanedLoop(camera) EXCEPT !.streamRef = "null"]
  /\ DoScoreReset
  /\ DoLandmarkReset
  /\ UNCHANGED << scoreVars, cmpVars, appVars, clockVars, angleVars, transformVars, sideVars,
                  pendingStarts, refLandmarksRef, emitted, frame,
                  frames, sessions >>

\* toggleCamera (the button shows while cameraState is "active"): facingMode
\* changes and the session effect runs again: its cleanup stops the tracks of
\* streamRef; with isRunning it calls startCamera, otherwise it stops the
\* camera and resets the smoothers.
ToggleCamera ==
  /\ cameraState = "active"
  /\ camera.flips < MaxFlips
  /\ rafPending' = FALSE
  /\ IF isRunning
     THEN /\ cameraState' = "requesting"
          /\ pendingStarts' = pendingStarts + 1
          /\ camera' = [CleanedLoop(camera) EXCEPT !.streamRef = StopTracks(@),
                                                   !.flips = @ + 1]
          /\ UNCHANGED << smootherVars, landmarkVars, landmarkSmoother >>
     ELSE /\ cameraState' = "idle"
          /\ camera' = [CleanedLoop(camera) EXCEPT !.streamRef = "null", !.flips = @ + 1]
          /\ DoScoreReset
          /\ DoLandmarkReset
          /\ UNCHANGED pendingStarts
  /\ UNCHANGED << scoreVars, cmpVars, appVars, clockVars, angleVars, transformVars, sideVars,
                  isRunning, refLandmarksRef, emitted, frame,
                  frames, sessions >>

\* Retry (the button shows while cameraState is "error"): startCamera.
RetryCamera ==
  /\ cameraState = "error"
  /\ camera.flips < MaxFlips
  /\ cameraState' = "requesting"
  /\ pendingStarts' = pendingStarts + 1
  /\ camera' = [camera EXCEPT !.streamRef = StopTracks(@), !.flips = @ + 1]
  /\ UNCHANGED << scoreVars, cmpVars, appVars, clockVars, angleVars, transformVars, sideVars,
                  smootherVars, landmarkVars, landmarkSmoother,
                  isRunning, refLandmarksRef, emitted, frame, rafPending, frames, sessions >>

\* The prop referenceLandmarks changes: the effect copies it into the ref.
SetReferenceLandmarks ==
  /\ \E value \in ReferenceValues :
        /\ value # refLandmarksRef
        /\ refLandmarksRef' = value
  /\ UNCHANGED << scoreVars, cmpVars, appVars, clockVars, angleVars, transformVars, sideVars,
                  smootherVars, landmarkVars, landmarkSmoother,
                  isRunning, cameraState, pendingStarts, emitted, frame, rafPending,
                  frames, sessions, camera >>

\* The detection loop exists while cameraState is "active" and isRunning.
LoopLive == cameraState = "active" /\ isRunning

\* if (comparison): scoreSmoother.update is called.
UpdatesScore_Always(hadRef, comparison) == TRUE
UpdatesScore(hadRef, comparison) == hadRef /\ ~comparison.isNull

\* The live set handed to comparePoses, taken to be the raw one.
ComparedSet_Raw(rawLandmarks, userLandmarks) == rawLandmarks

\* The live set handed to comparePoses: userLandmarks, what smooth returned.
ComparedSet(rawLandmarks, userLandmarks) == userLandmarks

\* The result handed to onComparisonUpdate: the comparison with regionScores
\* and overallScore replaced by what update returned.
EmittedResult(comparison, smoothed) ==
  [comparison EXCEPT !.regionScores = smoothed.regions,
                     !.overallScore = smoothed.overall]

\* The calls of onComparisonUpdate in an iteration: one with the result, one
\* with null, or, without a 2d context, none.
LoopEmission(ctx, detected, hadRef, comparison, smoothed) ==
  IF ~ctx THEN NoEmission
  ELSE IF detected /\ hadRef /\ ~comparison.isNull
       THEN Emission(EmittedResult(comparison, smoothed))
  ELSE Emission(NullResult)

\* One iteration of loop(), with video and canvas present: detect(), then
\* canvas.getContext("2d"), which gives a context or null.
LoopIteration ==
  /\ rafPending /\ camera.rafOwner \in camera.running
  /\ frames < MaxFrames
  /\ frames' = frames + 1
  /\ \E result \in DetectResults, ctx \in BOOLEAN :
        LET detected == ~result.isNull /\ Len(result.landmarks) > 0
            hadRef == ~refLandmarksRef.isNull
            found == [NoFrame EXCEPT !.ran = TRUE, !.ctx = ctx, !.detected = detected,
                                     !.hadRef = hadRef,
                                     !.live = LoopLive, !.loop = camera.rafOwner,
                                     !.smoothsInSession = frame.smoothsInSession,
                                     !.updatesInSession = frame.updatesInSession]
        IN  IF ctx /\ detected
            THEN LET rawLandmarks == result.landmarks[1]
                     userLandmarks == LandmarkSmootherSmooth(landmarkSmoother, rawLandmarks)
                     compared == ComparedSet(rawLandmarks, userLandmarks)
                     smoothedNow == [found EXCEPT
                                       !.raw = SomeLandmarks(rawLandmarks),
                                       !.smoothed = SomeLandmarks(userLandmarks),
                                       !.smoothCalls = 1,
                                       !.smoothsInSession = frame.smoothsInSession + 1]
                 IN  \E comparison \in
                         { IF hadRef THEN comparePoses(refLandmarksRef.landmarks, compared)
                                     ELSE NullResult } :
                     /\ DoSmooth(rawLandmarks)
                     /\ IF UpdatesScore(hadRef, comparison)
                        THEN /\ DoScoreUpdate(comparison.regionScores, comparison.overallScore)
                             /\ emitted' = LoopEmission(ctx, detected, hadRef, comparison,
                                                        ScoreSmootherReturn(scoreSmoother'))
                             /\ frame' = [smoothedNow EXCEPT
                                            !.compared = SomeLandmarks(compared),
                                            !.comparison = comparison,
                                            !.compareCalls = 1,
                                            !.updateRegions = comparison.regionScores,
                                            !.updateOverall = comparison.overallScore,
                                            !.updateCalls = 1,
                                            !.updatesInSession = frame.updatesInSession + 1]
                        ELSE /\ emitted' = LoopEmission(ctx, detected, hadRef, comparison,
                                                        ScoreSmootherReturn(scoreSmoother))
                             /\ frame' = IF hadRef
                                         THEN [smoothedNow EXCEPT
                                                 !.compared = SomeLandmarks(compared),
                                                 !.compareCalls = 1]
                                         ELSE smoothedNow
                             /\ UNCHANGED smootherVars
            ELSE /\ emitted' = LoopEmission(ctx, detected, hadRef, NullResult,
                                            ScoreSmootherReturn(scoreSmoother))
                 /\ frame' = found
                 /\ UNCHANGED << smootherVars, landmarkVars, landmarkSmoother >>
  /\ rafPending' = TRUE
  /\ UNCHANGED << scoreVars, cmpVars, appVars, clockVars, angleVars, transformVars, sideVars,
                  isRunning, cameraState, pendingStarts,
                  refLandmarksRef, sessions, camera >>

(***************************************************************************)
(* App: the displayed score.  Scores are counted in 1/AppUnit of a point   *)
(* of overallScore (0 .. 100 * AppUnit); displayScore is in whole points.  *)
(***************************************************************************)
AppUnit == 10
LerpNum == 3
LerpDen == 20

NullScore == [isNull |-> TRUE, value |-> 0]
SomeScore(v) == [isNull |-> FALSE, value |-> v]

\* Math.round: the nearest whole number, halves upwards.
MathRound(v) == ((2 * v) + AppUnit) \div (2 * AppUnit)

\* One pass of lerpLoop with current taken as 0 when it is null.
LerpStep_FromZero(target, current, shown) ==
  IF target.isNull
    THEN IF current.isNull
           THEN [displayScoreRef |-> current, displayScore |-> shown]
           ELSE [displayScoreRef |-> NullScore, displayScore |-> NullScore]
    ELSE LET from == IF current.isNull THEN 0 ELSE current.value
             newVal == from + RoundDiv((target.value - from) * LerpNum, LerpDen)
         IN  [displayScoreRef |-> SomeScore(newVal),
              displayScore |-> SomeScore(MathRound(newVal))]

\* One pass of lerpLoop: the new displayScoreRef.current and displayScore.
LerpStep(target, current, shown) ==
  IF target.isNull
    THEN IF current.isNull
           THEN [displayScoreRef |-> current, displayScore |-> shown]
           ELSE [displayScoreRef |-> NullScore, displayScore |-> NullScore]
    ELSE IF current.isNull
           THEN [displayScoreRef |-> target,
                 displayScore |-> SomeScore(MathRound(target.value))]
           ELSE LET newVal == current.value
                                + RoundDiv((target.value - current.value) * LerpNum, LerpDen)
                IN  [displayScoreRef |-> SomeScore(newVal),
                     displayScore |-> SomeScore(MathRound(newVal))]

\* The results CameraFeed hands to onComparisonUpdate: null, or one with an
\* overallScore.
AppScores == { 0, AppUnit \div 2, (49 * AppUnit) + (AppUnit \div 2), 100 * AppUnit }
AppResults == { NullScore } \cup { SomeScore(v) : v \in AppScores }

AppStep(op) == [op |-> op, target |-> targetScoreRef, current |-> displayScoreRef]

InitApp ==
  /\ targetScoreRef = NullScore
  /\ displayScoreRef = NullScore
  /\ displayScore = NullScore
  /\ appLast = [op |-> "mount", target |-> NullScore, current |-> NullScore]

HandleComparisonUpdate ==
  /\ isRunning
  /\ \E result \in AppResults :
       targetScoreRef' = IF result.isNull THEN NullScore ELSE SomeScore(result.value)
  /\ appLast' = AppStep("update")
  /\ UNCHANGED << displayScoreRef, displayScore, isRunning >>
  /\ UNCHANGED << scoreVars, cmpVars, smootherVars, landmarkVars, clockVars, angleVars, transformVars, sideVars,
                  landmarkSmoother, cameraState, pendingStarts, refLandmarksRef,
                  emitted, frame, rafPending, frames, sessions, camera >>

LerpTick ==
  /\ LET after == LerpStep(targetScoreRef, displayScoreRef, displayScore)
     IN  /\ displayScoreRef' = after.displayScoreRef
         /\ displayScore' = after.displayScore
  /\ appLast' = AppStep("tick")
  /\ UNCHANGED << targetScoreRef, isRunning >>
  /\ UNCHANGED << scoreVars, cmpVars, smootherVars, landmarkVars, clockVars, angleVars, transformVars, sideVars,
                  landmarkSmoother, cameraState, pendingStarts, refLandmarksRef,
                  emitted, frame, rafPending, frames, sessions, camera >>

\* setIsRunning, and the effect that follows the change of isRunning.
AppSetRunning ==
  /\ isRunning' = ~isRunning
  /\ IF isRunning
       THEN /\ targetScoreRef' = NullScore
            /\ displayScoreRef' = NullScore
            /\ displayScore' = NullScore
       ELSE UNCHANGED << targetScoreRef, displayScoreRef, displayScore >>
  /\ appLast' = AppStep("running")
  /\ UNCHANGED << scoreVars, cmpVars, smootherVars, landmarkVars, clockVars, angleVars, transformVars, sideVars,
                  landmarkSmoother, cameraState, pendingStarts, refLandmarksRef,
                  emitted, frame, rafPending, frames, sessions, camera >>

(***************************************************************************)
(* The timestamps of the two detection loops (CameraFeed, ReferenceVideo). *)
(***************************************************************************)
DetectionLoops == { "CameraFeed", "ReferenceVideo" }

NextTimestamp_Clamped(now, last) == IF now > last THEN now ELSE last

NextTimestamp(now, last) == IF now > last THEN now ELSE last + 1

InitClock ==
  /\ lastTimestampRef = [l \in DetectionLoops |-> 0]
  /\ stamps = [l \in DetectionLoops |-> << >>]

\* The part of one loop iteration from performance.now() to detect.
DetectAt ==
  \E l \in DetectionLoops, now \in 0 .. MaxNow :
    /\ Len(stamps[l]) < MaxStamps
    /\ LET timestamp == NextTimestamp(now, lastTimestampRef[l])
       IN  /\ lastTimestampRef' = [lastTimestampRef EXCEPT ![l] = timestamp]
           /\ stamps' = [stamps EXCEPT
                           ![l] = Append(@, [now |-> now, timestamp |-> timestamp])]
    /\ UNCHANGED << scoreVars, cmpVars, smootherVars, landmarkVars, feedVars, appVars,
                    angleVars, transformVars, sideVars >>

(***************************************************************************)
(* calculateAngle on its own: three points are drawn, with coordinates on  *)
(* the grid or so large that their squares are not finite, and with or     *)
(* without a z.                                                            *)
(***************************************************************************)
HugeCoord == 2000

AnglePoints ==
  { [x |-> x, y |-> y, z |-> z, visibility |-> 10] :
      x \in {0, 1, HugeCoord}, y \in {0, 3}, z \in {NoZ, 0, 2} }

NoAngle == [done |-> FALSE, value |-> 0]

IdleAngle == anglePoints = << >> /\ angleResult = NoAngle

InitAngle ==
  /\ anglePoints \in { <<a, b, c>> : a, b, c \in AnglePoints }
  /\ angleResult = NoAngle

AngleStep ==
  /\ ~angleResult.done
  /\ angleResult' = [done |-> TRUE,
                     value |-> calculateAngle(anglePoints[1], anglePoints[2], anglePoints[3])]
  /\ UNCHANGED anglePoints
  /\ UNCHANGED << scoreVars, cmpVars, smootherVars, landmarkVars, feedVars, appVars,
                  clockVars, transformVars, sideVars >>

(***************************************************************************)
(* comparePoses on two sets and on the same two sets with their            *)
(* coordinates changed: multiplied by a factor each, or both mirrored in   *)
(* one axis.                                                               *)
(***************************************************************************)
GridOne == 10

Scaled(landmarks, s) ==
  [k \in 1..Len(landmarks) |->
     [landmarks[k] EXCEPT !.x = s * @, !.y = s * @, !.z = s * @]]

\* x -> 1 - x, y -> 1 - y, z -> -z.
Mirrored(landmarks, axis) ==
  [k \in 1..Len(landmarks) |->
     CASE axis = "x" -> [landmarks[k] EXCEPT !.x = GridOne - @]
       [] axis = "y" -> [landmarks[k] EXCEPT !.y = GridOne - @]
       [] axis = "z" -> [landmarks[k] EXCEPT !.z = 0 - @]]

Transforms ==
  { [kind |-> "scale", axis |-> "none", s |-> s, t |-> t] : s, t \in 1..MaxScale }
    \cup { [kind |-> "mirror", axis |-> axis, s |-> 1, t |-> 1] : axis \in {"x", "y", "z"} }

NoTransform == [kind |-> "none", axis |-> "none", s |-> 1, t |-> 1]

\* The reference set (factor s) and the live set (factor t) after the change.
TransformedRef(landmarks) ==
  IF xform.kind = "mirror" THEN Mirrored(landmarks, xform.axis) ELSE Scaled(landmarks, xform.s)
TransformedUser(landmarks) ==
  IF xform.kind = "mirror" THEN Mirrored(landmarks, xform.axis) ELSE Scaled(landmarks, xform.t)

TransformSets ==
  VisibleSets(PoseNames \cup ElbowPoses)
    \cup { LandmarkSet("lean", NUM_LANDMARKS, {13, 14}, 4, 10),
           LandmarkSet("knee", NUM_LANDMARKS + 1, {}, 4, 10) }

IdleTransform == xform = NoTransform /\ xfResult = NullResult

InitTransform ==
  /\ cmpRef \in TransformSets
  /\ cmpUser \in TransformSets
  /\ cmpResult = NullResult
  /\ cmpDone = FALSE
  /\ xform \in Transforms
  /\ xfResult = NullResult

TransformStep ==
  /\ ~cmpDone
  /\ cmpResult' = comparePoses(cmpRef, cmpUser)
  /\ xfResult' = comparePoses(TransformedRef(cmpRef), TransformedUser(cmpUser))
  /\ cmpDone' = TRUE
  /\ UNCHANGED << cmpRef, cmpUser, xform >>
  /\ UNCHANGED << scoreVars, smootherVars, landmarkVars, feedVars, appVars, clockVars,
                  angleVars, sideVars >>

(***************************************************************************)
(* SkeletonRenderer.ts: the trail buffers of drawSkeleton.  trailBuffers   *)
(* is a record: buffers is the Map (a function on the trailIds it has),    *)
(* arrived the frames every trailId was called with, in order, and drawn   *)
(* the last call: its trailId and the frames of the trail it drew.         *)
(***************************************************************************)
TRAIL_BUFFER_SIZE == 3

\* The callers: CameraFeed's loop draws with "camera", ReferenceVideo's with
\* "reference".
TrailIds == {"camera", "reference"}

\* currentPositions, one number per frame; the two loops draw different poses.
FramesOf(trailId) == IF trailId = "camera" THEN {1, 2} ELSE {11, 12}

\* trailBuffer.push(currentPositions) without the shift.
Pushed_NoShift(trailBuffer, currentPositions) == Append(trailBuffer, currentPositions)

\* trailBuffer.push(currentPositions); if (trailBuffer.length >
\* TRAIL_BUFFER_SIZE) trailBuffer.shift().
Pushed(trailBuffer, currentPositions) ==
  IF Len(trailBuffer) + 1 > TRAIL_BUFFER_SIZE
  THEN Tail(Append(trailBuffer, currentPositions))
  ELSE Append(trailBuffer, currentPositions)

\* if (!trailBuffers.has(trailId)) trailBuffers.set(trailId, []);
\* trailBuffers.get(trailId).
TrailBufferOf(buffers, trailId) ==
  IF trailId \in DOMAIN buffers THEN buffers[trailId] ELSE << >>

\* The frames the trail loop reads: trailBuffer[0 .. length - 2].
TrailFrames(trailBuffer) == SubSeq(trailBuffer, 1, Len(trailBuffer) - 1)

NoDraw == [trailId |-> "none", trail |-> << >>]

IdleTrail ==
  trailBuffers = [buffers |-> [k \in {} |-> << >>],
                  arrived |-> [k \in TrailIds |-> << >>],
                  drawn |-> NoDraw, draws |-> 0]

\* drawSkeleton(ctx, landmarks, width, height, style, regionScores, trailId).
DrawSkeleton ==
  /\ trailBuffers.draws < MaxDraws
  /\ \E trailId \in TrailIds : \E currentPositions \in FramesOf(trailId) :
       \E trailBuffer \in {Pushed(TrailBufferOf(trailBuffers.buffers, trailId),
                                  currentPositions)} :
          trailBuffers' =
            [buffers |-> [k \in DOMAIN trailBuffers.buffers \cup {trailId} |->
                            IF k = trailId THEN trailBuffer
                            ELSE trailBuffers.buffers[k]],
             arrived |-> [trailBuffers.arrived EXCEPT
                            ![trailId] = Append(@, currentPositions)],
             drawn |-> [trailId |-> trailId, trail |-> TrailFrames(trailBuffer)],
             draws |-> trailBuffers.draws + 1]
  /\ UNCHANGED << scoreVars, cmpVars, smootherVars, landmarkVars, feedVars, appVars,
                  clockVars, angleVars, transformVars, refVideo, detector >>

(***************************************************************************)
(* ReferenceVideo.tsx with App's refLandmarks state.  refVideo is a        *)
(* record: isRunning, countdown and playing as last rendered; queue and    *)
(* playingQueue the setCountdown and setPlaying calls not rendered yet;    *)
(* timer the pending setTimeout of the countdown effect; videoPaused and   *)
(* videoSession the <video> element and the session whose effect played    *)
(* it; loop the `running` of the reference loop; refLandmarks what App     *)
(* hands to CameraFeed; cameraActive and emitted the camera loop and its   *)
(* last onComparisonUpdate call, with the sessions of the two sets it      *)
(* compared; lateTick, that a timer has fired since the session stopped.   *)
(* The pose model has loaded.                                              *)
(***************************************************************************)
\* useState<number | null>(null): null is NullCount.
NullCount == 0 - 1

\* setCountdown(3), setCountdown(null) and setCountdown((c) => (c !== null ?
\* c - 1 : null)) applied in the order they were called.
RECURSIVE ApplyCountdown(_, _)
ApplyCountdown(countdown, queue) ==
  IF queue = << >> THEN countdown
  ELSE ApplyCountdown(
         CASE Head(queue) = "three" -> 3
           [] Head(queue) = "null" -> NullCount
           [] OTHER -> IF countdown # NullCount THEN countdown - 1 ELSE NullCount,
         Tail(queue))

\* setPlaying calls applied in order: the last one stands.
ApplyPlaying(playing, playingQueue) ==
  IF playingQueue = << >> THEN playing ELSE playingQueue[Len(playingQueue)]

NoRefLandmarks == [isNull |-> TRUE, session |-> 0]
NoComparisonCall ==
  [called |-> FALSE, isNull |-> TRUE, refSession |-> 0, liveSession |-> 0,
   playing |-> FALSE]

\* The effect on [isRunning], after a render in which isRunning changed.
SessionEffect(rv) ==
  IF rv.isRunning
  THEN IF rv.countdown = NullCount
       THEN [rv EXCEPT !.queue = Append(@, "three"),
                       !.playingQueue = Append(@, FALSE)]
       ELSE rv
  ELSE [rv EXCEPT !.queue = Append(@, "null"),
                  !.playingQueue = Append(@, FALSE),
                  !.refLandmarks = NoRefLandmarks,
                  !.videoPaused = TRUE]

\* The effect on [countdown], after a render in which countdown changed: the
\* cleanup clears the timer; at 0 the video plays, above 0 a timer is set.
CountdownEffect(rv) ==
  IF rv.countdown = NullCount THEN [rv EXCEPT !.timer = FALSE]
  ELSE IF rv.countdown <= 0
       THEN [rv EXCEPT !.timer = FALSE,
                       !.playingQueue = Append(@, TRUE),
                       !.videoPaused = FALSE,
                       !.videoSession = rv.session]
       ELSE [rv EXCEPT !.timer = TRUE]

\* The effect on [playing, ...]: the cleanup ends the loop, and with playing a
\* new loop starts.
ReferenceLoopEffect(rv) == [rv EXCEPT !.loop = rv.playing]

\* One render of ReferenceVideo with its effects: every queued state update
\* is applied, then the effects whose dependencies changed run in the order
\* of their declaration.
Rendered(rv, running) ==
  LET next == [rv EXCEPT !.isRunning = running,
                         !.countdown = ApplyCountdown(rv.countdown, rv.queue),
                         !.playing = ApplyPlaying(rv.playing, rv.playingQueue),
                         !.queue = << >>,
                         !.playingQueue = << >>]
      one == IF next.isRunning # rv.isRunning THEN SessionEffect(next) ELSE next
      two == IF next.countdown # rv.countdown THEN CountdownEffect(one) ELSE one
  IN  IF next.playing # rv.playing THEN ReferenceLoopEffect(two) ELSE two

IdleReference ==
  refVideo = [isRunning |-> FALSE, session |-> 0, countdown |-> NullCount,
              playing |-> FALSE, queue |-> << >>, playingQueue |-> << >>,
              timer |-> FALSE, videoPaused |-> TRUE, videoSession |-> 0,
              loop |-> FALSE, refLandmarks |-> NoRefLandmarks,
              cameraActive |-> FALSE, emitted |-> NoComparisonCall,
              lateTick |-> FALSE]

RefUnchanged ==
  UNCHANGED << scoreVars, cmpVars, smootherVars, landmarkVars, feedVars, appVars,
               clockVars, angleVars, transformVars, trailBuffers, detector >>

\* Start Dancing: setIsRunning(true), rendered.
RefStart ==
  /\ ~refVideo.isRunning
  /\ refVideo.session < MaxSessions
  /\ refVideo' = Rendered([refVideo EXCEPT !.session = @ + 1,
                                            !.cameraActive = FALSE,
                                            !.lateTick = FALSE], TRUE)
  /\ RefUnchanged

\* Stop: setIsRunning(false), rendered.
RefStop ==
  /\ refVideo.isRunning
  /\ refVideo' = Rendered([refVideo EXCEPT !.cameraActive = FALSE], FALSE)
  /\ RefUnchanged

\* A render for the state updates that effects and timers have queued.
RefRender ==
  /\ refVideo.queue # << >> \/ refVideo.playingQueue # << >>
  /\ refVideo' = Rendered(refVideo, refVideo.isRunning)
  /\ RefUnchanged

\* The setTimeout of the countdown effect fires.
TimerTick ==
  /\ refVideo.timer
  /\ refVideo' = [refVideo EXCEPT !.timer = FALSE, !.queue = Append(@, "dec"),
                                  !.lateTick = @ \/ ~refVideo.isRunning]
  /\ RefUnchanged

\* One iteration of the reference loop: a paused video is skipped; without a
\* 2d context nothing is reported; otherwise the landmarks or null.
RefLoopIteration ==
  /\ refVideo.loop
  /\ ~refVideo.videoPaused
  /\ \E ctx \in BOOLEAN, detected \in BOOLEAN :
        refVideo' =
          IF ~ctx THEN refVideo
          ELSE [refVideo EXCEPT !.refLandmarks =
                  IF detected
                  THEN [isNull |-> FALSE, session |-> refVideo.videoSession]
                  ELSE NoRefLandmarks]
  /\ RefUnchanged

\* CameraFeed's startCamera has succeeded while isRunning.
RefCameraStarted ==
  /\ refVideo.isRunning
  /\ ~refVideo.cameraActive
  /\ refVideo' = [refVideo EXCEPT !.cameraActive = TRUE]
  /\ RefUnchanged

\* One iteration of the camera loop that has a 2d context: with a live pose
\* and reference landmarks it emits a comparison, otherwise null.
CameraEmit ==
  /\ refVideo.isRunning
  /\ refVideo.cameraActive
  /\ \E live \in BOOLEAN :
        refVideo' = [refVideo EXCEPT !.emitted =
          IF live /\ ~refVideo.refLandmarks.isNull
          THEN [called |-> TRUE, isNull |-> FALSE,
                refSession |-> refVideo.refLandmarks.session,
                liveSession |-> refVideo.session, playing |-> refVideo.playing]
          ELSE [called |-> TRUE, isNull |-> TRUE, refSession |-> 0,
                liveSession |-> refVideo.session, playing |-> refVideo.playing]]
  /\ RefUnchanged

(***************************************************************************)
(* usePoseDetector.ts.  detector is a record: mounted and mounts (how      *)
(* often the effect has run); per run of the effect its `cancelled`, the   *)
(* stage of its init and the landmarker it created; landmarkerRef (0 is    *)
(* null, otherwise the run that created the landmarker), isLoading and     *)
(* error; late, the runs whose init settled after their cleanup; and the   *)
(* outcome of the last detect call.                                        *)
(***************************************************************************)
IdleDetector ==
  detector = [mounted |-> FALSE, mounts |-> 0, cancelled |-> << >>, stage |-> << >>,
              landmarkers |-> << >>, landmarkerRef |-> 0, isLoading |-> TRUE,
              error |-> FALSE, late |-> {}, detected |-> "none"]

DetectorUnchanged ==
  UNCHANGED << scoreVars, cmpVars, smootherVars, landmarkVars, feedVars, appVars,
               clockVars, angleVars, transformVars, trailBuffers, refVideo >>

\* landmarkerRef.current?.close().
Closed(det) ==
  IF det.landmarkerRef = 0 THEN det
  ELSE [det EXCEPT !.landmarkers[det.landmarkerRef] = "closed"]

\* if (!cancelled) { landmarkerRef.current = landmarker; setIsLoading(false); }
Stored(det, run) ==
  IF det.cancelled[run] THEN det
  ELSE [det EXCEPT !.landmarkerRef = run, !.isLoading = FALSE]

\* catch: if (!cancelled) { setError(...); setIsLoading(false); }
Failed(det, run) ==
  IF det.cancelled[run] THEN det
  ELSE [det EXCEPT !.error = TRUE, !.isLoading = FALSE]

\* The effect runs: cancelled = false; init().
HookMount ==
  /\ ~detector.mounted
  /\ detector.mounts < MaxMounts
  /\ detector' = [detector EXCEPT !.mounted = TRUE, !.mounts = @ + 1,
                                  !.cancelled = Append(@, FALSE),
                                  !.stage = Append(@, "vision"),
                                  !.landmarkers = Append(@, "none")]
  /\ DetectorUnchanged

\* The cleanup: cancelled = true; landmarkerRef.current?.close().
HookUnmount ==
  /\ detector.mounted
  /\ detector' = Closed([detector EXCEPT !.mounted = FALSE,
                                         !.cancelled[detector.mounts] = TRUE])
  /\ DetectorUnchanged

\* await FilesetResolver.forVisionTasks(...) resolves.
VisionResolved ==
  /\ \E run \in 1..detector.mounts :
        /\ detector.stage[run] = "vision"
        /\ detector' = [detector EXCEPT !.stage[run] = "creating"]
  /\ DetectorUnchanged

\* await PoseLandmarker.createFromOptions(...) resolves.
InitCreated ==
  /\ \E run \in 1..detector.mounts :
        /\ detector.stage[run] = "creating"
        /\ detector' = Stored([detector EXCEPT
                                 !.stage[run] = "created",
                                 !.landmarkers[run] = "open",
                                 !.late = IF detector.cancelled[run]
                                          THEN @ \cup {run} ELSE @], run)
  /\ DetectorUnchanged

\* Either await rejects.
InitFailed ==
  /\ \E run \in 1..detector.mounts :
        /\ detector.stage[run] \in {"vision", "creating"}
        /\ detector' = Failed([detector EXCEPT
                                 !.stage[run] = "failed",
                                 !.late = IF detector.cancelled[run]
                                          THEN @ \cup {run} ELSE @], run)
  /\ DetectorUnchanged

\* detect(video, timestamp): null without a landmarker, with a video that has
\* no frame yet, or when detectForVideo throws (as on a closed landmarker).
Detect ==
  /\ detector.mounted
  /\ \E ready \in BOOLEAN, throws \in BOOLEAN :
        detector' = [detector EXCEPT !.detected =
          IF detector.landmarkerRef = 0 \/ ~ready THEN "null"
          ELSE IF throws \/ detector.landmarkers[detector.landmarkerRef] = "closed"
               THEN "null" ELSE "result"]
  /\ DetectorUnchanged

IdleSide == IdleTrail /\ IdleReference /\ IdleDetector

(***************************************************************************)
(* Specifications.                                                         *)
(***************************************************************************)
IdleScore == diffs = << >> /\ scores = << >> /\ colors = << >>
IdleCompare == cmpRef = << >> /\ cmpUser = << >> /\ cmpResult = NullResult /\ cmpDone = FALSE

NextScore ==
  \/ ScoreStep /\ UNCHANGED << cmpVars, smootherVars, landmarkVars, feedVars, appVars, clockVars,
                          angleVars, transformVars, sideVars >>
  \/ ColorStep /\ UNCHANGED << cmpVars, smootherVars, landmarkVars, feedVars, appVars, clockVars,
                          angleVars, transformVars, sideVars >>
ScoreInit ==
  InitScore /\ IdleCompare /\ InitSmoother /\ InitLandmark /\ InitFeed /\ InitApp
    /\ InitClock /\ IdleAngle /\ IdleTransform /\ IdleSide
SpecScore == ScoreInit /\ [][NextScore]_vars

NextCompare ==
  CompareStep /\ UNCHANGED << scoreVars, smootherVars, landmarkVars, feedVars, appVars, clockVars,
                          angleVars, transformVars, sideVars >>
CompareInit ==
  InitCompare /\ IdleScore /\ InitSmoother /\ InitLandmark /\ InitFeed /\ InitApp
    /\ InitClock /\ IdleAngle /\ IdleTransform /\ IdleSide
SpecCompare == CompareInit /\ [][NextCompare]_vars

NextSmoother == SmUpdate \/ SmReset
SmootherInit ==
  InitSmoother /\ IdleScore /\ IdleCompare /\ InitLandmark /\ InitFeed /\ InitApp
    /\ InitClock /\ IdleAngle /\ IdleTransform /\ IdleSide
SpecSmoother == SmootherInit /\ [][NextSmoother]_vars

NextLandmark == LmSmooth \/ LmReset
LandmarkInit ==
  InitLandmark /\ IdleScore /\ IdleCompare /\ InitSmoother /\ InitFeed /\ InitApp
    /\ InitClock /\ IdleAngle /\ IdleTransform /\ IdleSide
SpecLandmark == LandmarkInit /\ [][NextLandmark]_vars

Init == IdleScore /\ IdleCompare /\ InitSmoother /\ InitLandmark /\ InitFeed /\ InitApp /\ InitClock /\ IdleAngle /\ IdleTransform /\ IdleSide
Next ==
  \/ StartSession
  \/ CameraStarted
  \/ CameraFailed
  \/ StopSession
  \/ SetReferenceLandmarks
  \/ LoopIteration
Spec == Init /\ [][Next]_vars

NextApp == HandleComparisonUpdate \/ LerpTick \/ AppSetRunning
AppInit ==
  InitApp /\ IdleScore /\ IdleCompare /\ InitSmoother /\ InitLandmark /\ InitFeed
    /\ InitClock /\ IdleAngle /\ IdleTransform /\ IdleSide
SpecApp == AppInit /\ [][NextApp]_vars

NextClock == DetectAt
ClockInit ==
  InitClock /\ IdleScore /\ IdleCompare /\ InitSmoother /\ InitLandmark /\ InitFeed
    /\ InitApp /\ IdleAngle /\ IdleTransform /\ IdleSide
SpecClock == ClockInit /\ [][NextClock]_vars

NextAngle == AngleStep
AngleInit ==
  InitAngle /\ IdleScore /\ IdleCompare /\ InitSmoother /\ InitLandmark /\ InitFeed
    /\ InitApp /\ InitClock /\ IdleTransform /\ IdleSide
SpecAngle == AngleInit /\ [][NextAngle]_vars

NextTransform == TransformStep
TransformInit ==
  InitTransform /\ IdleScore /\ InitSmoother /\ InitLandmark /\ InitFeed
    /\ InitApp /\ InitClock /\ IdleAngle /\ IdleSide
SpecTransform == TransformInit /\ [][NextTransform]_vars

\* The pipeline with the camera's buttons: toggleCamera and Retry.
NextCamera ==
  \/ StartSession
  \/ CameraStarted
  \/ CameraFailed
  \/ StopSession
  \/ SetReferenceLandmarks
  \/ LoopIteration
  \/ ToggleCamera
  \/ RetryCamera
CameraInit ==
  InitFeed /\ IdleScore /\ IdleCompare /\ InitSmoother /\ InitLandmark /\ InitApp
    /\ InitClock /\ IdleAngle /\ IdleTransform /\ IdleSide
SpecCamera == CameraInit /\ [][NextCamera]_vars

IdleFeedAndHarnesses ==
  IdleScore /\ IdleCompare /\ InitSmoother /\ InitLandmark /\ InitFeed /\ InitApp
    /\ InitClock /\ IdleAngle /\ IdleTransform

NextTrail == DrawSkeleton
TrailInit == IdleFeedAndHarnesses /\ IdleTrail /\ IdleReference /\ IdleDetector
SpecTrail == TrailInit /\ [][NextTrail]_vars

NextReference ==
  \/ RefStart
  \/ RefStop
  \/ RefRender
  \/ TimerTick
  \/ RefLoopIteration
  \/ RefCameraStarted
  \/ CameraEmit
ReferenceInit == IdleFeedAndHarnesses /\ IdleReference /\ IdleTrail /\ IdleDetector
SpecReference == ReferenceInit /\ [][NextReference]_vars

NextDetector ==
  \/ HookMount
  \/ HookUnmount
  \/ VisionResolved
  \/ InitCreated
  \/ InitFailed
  \/ Detect
DetectorInit == IdleFeedAndHarnesses /\ IdleDetector /\ IdleTrail /\ IdleReference
SpecDetector == DetectorInit /\ [][NextDetector]_vars

(***************************************************************************)
(* Claims about scoreAngle (SpecScore).                                    *)
(***************************************************************************)

\* C1: scoreAngle returns, for every diff >= 0, a value in [0,1]; it is 1.0 at
\* 0 and at 15, 0.5 at 30, 0.0 at 60 and beyond; on [15,30] it is the line
\* from 1.0 to 0.5 and on [30,60] the line from 0.5 to 0.0, end points
\* included from both sides (no jump); and of two diffs the larger never
\* scores higher.
C1_ScoreAngleCurve ==
  /\ \A i \in 1..Len(scores) :
        LET d == diffs[i]
            s == scores[i]
        IN  /\ s >= 0 /\ s <= ScoreOne
            /\ d <= 15 * DegDen => s = ScoreOne
            /\ d = 30 * DegDen => 2 * s = ScoreOne
            /\ d >= 60 * DegDen => s = 0
            /\ (d >= 15 * DegDen /\ d <= 30 * DegDen)
                  => s * 30 * DegDen = ScoreOne * (45 * DegDen - d)
            /\ (d >= 30 * DegDen /\ d <= 60 * DegDen)
                  => s * 60 * DegDen = ScoreOne * (60 * DegDen - d)
  /\ (Len(scores) = 2 /\ diffs[1] <= diffs[2]) => scores[1] >= scores[2]

\* C1 witness: 20 and 45 degrees have been scored, 5/6 and 1/4.
C1_Witness ==
  /\ diffs = << 20 * DegDen, 45 * DegDen >>
  /\ Len(scores) = 2
  /\ 6 * scores[1] = 5 * ScoreOne
  /\ 4 * scores[2] = ScoreOne

(***************************************************************************)
(* Claims about comparePoses (SpecCompare).                                *)
(***************************************************************************)

\* The visibility of landmark i of a set, read from the data: undefined (or a
\* missing landmark) counts as 0.
VisibilityOf(landmarks, i) ==
  IF i + 1 > Len(landmarks) THEN 0
  ELSE IF landmarks[i + 1].visibility = NoVis THEN 0 ELSE landmarks[i + 1].visibility

\* Every landmark of `indices` has visibility >= 0.5 in both sets.
SeenInBoth(indices) ==
  \A i \in indices : VisibilityOf(cmpRef, i) >= 5 /\ VisibilityOf(cmpUser, i) >= 5

EntriesNamed(name) == { i \in 1..Len(cmpResult.angles) : cmpResult.angles[i].name = name }
EntriesOfRegion(r) == { i \in 1..Len(cmpResult.angles) : cmpResult.angles[i].region = r }
EntryScores == [i \in 1..Len(cmpResult.angles) |-> cmpResult.angles[i].score]
RegionTotal(r) ==
  SumSeq([i \in 1..Len(cmpResult.angles) |->
            IF cmpResult.angles[i].region = r THEN cmpResult.angles[i].score ELSE 0])

JointTriplets ==
  { <<"Left Elbow", {11, 13, 15}>>, <<"Right Elbow", {12, 14, 16}>>,
    <<"Left Shoulder", {13, 11, 23}>>, <<"Right Shoulder", {14, 12, 24}>>,
    <<"Left Knee", {23, 25, 27}>>, <<"Right Knee", {24, 26, 28}>>,
    <<"Left Hip", {11, 23, 25}>>, <<"Right Hip", {12, 24, 26}>> }
TorsoLandmarks == {11, 12, 23, 24}

\* C2 as stated: comparePoses returns a result only when both sets have
\* exactly 33 landmarks.
C2_OnlyExactly33 ==
  (cmpDone /\ ~cmpResult.isNull) => (Len(cmpRef) = 33 /\ Len(cmpUser) = 33)

\* C2 amended: comparePoses returns null whenever either set has fewer than 33
\* landmarks (empty or short), and never pads; sets of 33 or more landmarks
\* are compared, and only the landmarks 0..32 are read: the outcome is that
\* of the first 33 landmarks of each set.
C2_ShortSetsRejected ==
  cmpDone =>
    /\ (Len(cmpRef) < 33 \/ Len(cmpUser) < 33) => cmpResult.isNull
    /\ (Len(cmpRef) >= 33 /\ Len(cmpUser) >= 33)
          => cmpResult = comparePoses(SubSeq(cmpRef, 1, 33), SubSeq(cmpUser, 1, 33))

\* C2 witness: a set of 32 landmarks against a full set was answered with
\* null.
C2_Witness ==
  cmpDone /\ Len(cmpRef) = 33 /\ Len(cmpUser) = 32 /\ cmpResult.isNull

\* C3: in a result, each of the eight joint angles is present exactly when its
\* three landmarks have visibility >= 0.5 in both sets (undefined counts as
\* 0, 0.5 passes), at most once; and a region all of whose measurements are
\* absent has no region score.
C3_JointAngleGating ==
  (cmpDone /\ ~cmpResult.isNull) =>
    /\ \A t \in JointTriplets :
          /\ (EntriesNamed(t[1]) # {}) <=> SeenInBoth(t[2])
          /\ Cardinality(EntriesNamed(t[1])) <= 1
    /\ \A r \in Regions :
          (r \in DOMAIN cmpResult.regionScores) => EntriesOfRegion(r) # {}

\* C3 witness: the left wrist is hidden in the live set only; the Left Elbow
\* entry is absent, the Left Shoulder entry present.
C3_Witness ==
  /\ cmpDone /\ ~cmpResult.isNull
  /\ VisibilityOf(cmpUser, 15) < 5 /\ VisibilityOf(cmpRef, 15) >= 5
  /\ EntriesNamed("Left Elbow") = {}
  /\ EntriesNamed("Left Shoulder") # {}

\* C4 as stated: a result has a Torso Lean entry (and a torso region score)
\* only if both shoulders and both hips have visibility >= 0.5 in both sets.
C4_TorsoLeanGated ==
  (cmpDone /\ ~cmpResult.isNull) =>
    /\ EntriesNamed("Torso Lean") # {} => SeenInBoth(TorsoLandmarks)
    /\ "torso" \in DOMAIN cmpResult.regionScores => SeenInBoth(TorsoLandmarks)

\* C5 as stated: when each of the nine measurements has a landmark of
\* visibility below 0.5 in one of the two 33-point sets, comparePoses returns
\* null.
C5_AllGatedIsNull ==
  ( /\ cmpDone /\ Len(cmpRef) = 33 /\ Len(cmpUser) = 33
    /\ \A t \in JointTriplets : ~SeenInBoth(t[2])
    /\ ~SeenInBoth(TorsoLandmarks) )
  => cmpResult.isNull

\* C6: in a result, regionScores has a key exactly for the regions that some
\* entry of angles has, and its value is the sum of the scores of the entries
\* of that region divided by their number.
C6_RegionMeans ==
  (cmpDone /\ ~cmpResult.isNull) =>
    /\ DOMAIN cmpResult.regionScores
          = { cmpResult.angles[i].region : i \in 1..Len(cmpResult.angles) }
    /\ \A r \in DOMAIN cmpResult.regionScores :
          cmpResult.regionScores[r] * Cardinality(EntriesOfRegion(r)) = RegionTotal(r)

\* C6 witness: the left arm has two entries with different scores, and its
\* region score lies strictly between them; the left leg has none and no key.
C6_Witness ==
  /\ cmpDone /\ ~cmpResult.isNull
  /\ "leftLeg" \notin DOMAIN cmpResult.regionScores
  /\ "leftArm" \in DOMAIN cmpResult.regionScores
  /\ \E i, j \in EntriesOfRegion("leftArm") :
        /\ cmpResult.angles[i].score < cmpResult.regionScores["leftArm"]
        /\ cmpResult.regionScores["leftArm"] < cmpResult.angles[j].score

\* 100 times the mean of the region means, times the number of regions.
SumOfRegionMeans ==
  SumSeq([i \in 1..Len(cmpResult.angles) |->
            IF i = CHOOSE j \in EntriesOfRegion(cmpResult.angles[i].region) : TRUE
            THEN cmpResult.regionScores[cmpResult.angles[i].region] ELSE 0])

\* C7: in a result, overallScore is 100 times the sum of the scores of all
\* entries of angles divided by their number, each entry counted once.
C7_OverallIsMeanOfAll ==
  (cmpDone /\ ~cmpResult.isNull) =>
    cmpResult.overallScore * Len(cmpResult.angles) = 100 * SumSeq(EntryScores)

\* C7 witness: a result of nine entries in which the overall score is not 100
\* times the mean of the five region means.
C7_Witness ==
  /\ cmpDone /\ ~cmpResult.isNull
  /\ Len(cmpResult.angles) = 9
  /\ Cardinality(DOMAIN cmpResult.regionScores) = 5
  /\ cmpResult.overallScore * 5 # 100 * SumOfRegionMeans

(***************************************************************************)
(* Claims about what CameraFeed emits (Spec).                              *)
(***************************************************************************)

Min(a, b) == IF a < b THEN a ELSE b
Max(a, b) == IF a > b THEN a ELSE b

\* C8: every non-null result handed to onComparisonUpdate has overallScore in
\* [0,100], region scores in [0,1] under keys among the five regions, and
\* angle entries with diff >= 0 and score in [0,1]; and an overall score
\* that came out of a blend lies between the raw score and the score
\* returned before it.
C8_EmittedRanges ==
  (emitted.calls > 0 /\ ~emitted.result.isNull) =>
    /\ emitted.result.overallScore >= 0
    /\ emitted.result.overallScore <= 100 * ScoreOne
    /\ DOMAIN emitted.result.regionScores \subseteq Regions
    /\ \A r \in DOMAIN emitted.result.regionScores :
          emitted.result.regionScores[r] >= 0 /\ emitted.result.regionScores[r] <= ScoreOne
    /\ \A i \in 1..Len(emitted.result.angles) :
          /\ emitted.result.angles[i].diff >= 0
          /\ emitted.result.angles[i].score >= 0
          /\ emitted.result.angles[i].score <= ScoreOne
    /\ (smCall.op = "update" /\ smCall.prior.op = "update") =>
          /\ emitted.result.overallScore >= Min(smCall.overallScore, smCall.prior.overall)
          /\ emitted.result.overallScore <= Max(smCall.overallScore, smCall.prior.overall)

\* C8 witness: in a second session, a result was emitted whose overall score
\* is a blend: strictly between the raw score of the frame and the score
\* emitted before.
C8_Witness ==
  /\ sessions = 2
  /\ emitted.calls > 0 /\ ~emitted.result.isNull
  /\ smCall.op = "update" /\ smCall.prior.op = "update"
  /\ emitted.result.overallScore = smCall.overall
  /\ smCall.overall > Min(smCall.overallScore, smCall.prior.overall)
  /\ smCall.overall < Max(smCall.overallScore, smCall.prior.overall)

(***************************************************************************)
(* Claims about the ScoreSmoother (SpecSmoother).                          *)
(***************************************************************************)

\* The update was the first since the construction or the last reset.
FirstUpdate == smCall.op = "update" /\ smCall.prior.op \in {"none", "reset"}
LaterUpdate == smCall.op = "update" /\ smCall.prior.op = "update"

\* v is alpha * new + (1 - alpha) * prev, alpha = 0.12, to the nearest unit.
IsBlendOf(v, new, prev) ==
  /\ 25 * v - (3 * new + 22 * prev) <= 12
  /\ (3 * new + 22 * prev) - 25 * v <= 12

\* C9: the first update on a fresh ScoreSmoother, and the first update after
\* a reset whatever came before it, returns its arguments: the same keys
\* with the same values and the same overall score; and the object holds
\* exactly that.
C9_FirstUpdateReturnsInput ==
  FirstUpdate =>
    /\ smCall.regions = smCall.regionScores
    /\ smCall.overall = smCall.overallScore
    /\ scoreSmoother.smoothedRegions = smCall.regionScores
    /\ scoreSmoother.smoothedOverall = smCall.overallScore

\* C9 witness: an update after a reset that cleared a smoother holding the
\* key leftArm and another overall score; the update returned torso only.
C9_Witness ==
  /\ FirstUpdate /\ smCall.prior.op = "reset"
  /\ "leftArm" \in DOMAIN smCall.prior.before.smoothedRegions
  /\ smCall.prior.before.smoothedOverall # smCall.overallScore
  /\ DOMAIN smCall.regions = {"torso"}
  /\ smCall.overall = smCall.overallScore

\* C10: on an update that is not the first since the last reset, every key of
\* the incoming regionScores that the object already holds is stored and
\* returned as alpha * incoming + (1 - alpha) * previous, previous being the
\* value the update before returned for that key.
C10_KnownKeyBlends ==
  LaterUpdate =>
    \A key \in (DOMAIN smCall.regionScores) \cap (DOMAIN smCall.before.smoothedRegions) :
      /\ key \in DOMAIN smCall.prior.regions
      /\ IsBlendOf(smCall.regions[key], smCall.regionScores[key], smCall.prior.regions[key])
      /\ scoreSmoother.smoothedRegions[key] = smCall.regions[key]

\* C10 witness: torso came in, was absent from the update before, and was
\* blended with the value kept from an earlier update: the result lies
\* strictly between the incoming and the previous value.
C10_Witness ==
  /\ LaterUpdate
  /\ "torso" \in DOMAIN smCall.regionScores
  /\ "torso" \notin DOMAIN smCall.prior.regionScores
  /\ "torso" \in DOMAIN smCall.prior.regions
  /\ smCall.regionScores["torso"] < smCall.regions["torso"]
  /\ smCall.regions["torso"] < smCall.prior.regions["torso"]

\* C11: on every update that is not the first since the last reset, the
\* overall score returned (and stored) is alpha * incoming overall +
\* (1 - alpha) * the overall the update before returned, whatever keys the
\* incoming regionScores has: none, keys held already, or new keys only.
C11_OverallAlwaysBlends ==
  LaterUpdate =>
    /\ smCall.before.smoothedOverall = smCall.prior.overall
    /\ IsBlendOf(smCall.overall, smCall.overallScore, smCall.prior.overall)
    /\ scoreSmoother.smoothedOverall = smCall.overall

\* C11 witness: a later update whose regionScores was empty, with an overall
\* score above the one returned before: the overall returned lies strictly
\* between the two.
C11_Witness ==
  /\ LaterUpdate
  /\ DOMAIN smCall.regionScores = {}
  /\ DOMAIN smCall.before.smoothedRegions # {}
  /\ smCall.prior.overall < smCall.overall
  /\ smCall.overall < smCall.overallScore

\* The keys no update has brought since the last reset: update never drops a
\* key, so they are the keys the object did not hold before the call.
NewKeys == (DOMAIN smCall.regionScores) \ (DOMAIN smCall.before.smoothedRegions)

AbsentKeys == (DOMAIN smCall.before.smoothedRegions) \ (DOMAIN smCall.regionScores)

\* C13: a key the object holds that is absent from the incoming regionScores
\* of an update is returned by that update, and stored, with the value it had
\* before the call; so it keeps that value over any number of consecutive
\* updates without it (two in a row are spelled out), and only reset
\* removes it.
C13_AbsentKeyKept ==
  /\ smCall.op = "update" =>
       \A key \in AbsentKeys :
         /\ key \in DOMAIN smCall.regions
         /\ smCall.regions[key] = smCall.before.smoothedRegions[key]
         /\ scoreSmoother.smoothedRegions[key] = smCall.before.smoothedRegions[key]
         /\ (smCall.prior.op = "update" /\ key \notin DOMAIN smCall.prior.regionScores
               /\ key \in DOMAIN smCall.prior.before.smoothedRegions)
              => smCall.regions[key] = smCall.prior.before.smoothedRegions[key]
  /\ smCall.op = "update" =>
       DOMAIN smCall.before.smoothedRegions \subseteq DOMAIN scoreSmoother.smoothedRegions
  /\ smCall.op = "reset" => DOMAIN scoreSmoother.smoothedRegions = {}

\* C13 witness: torso, held with a value that is not 0, was absent from two
\* updates in a row while leftArm came in, and the second of them returned
\* torso with the value it had before the first.
C13_Witness ==
  /\ LaterUpdate
  /\ "torso" \in AbsentKeys
  /\ "torso" \notin DOMAIN smCall.prior.regionScores
  /\ "torso" \in DOMAIN smCall.prior.before.smoothedRegions
  /\ "leftArm" \in DOMAIN smCall.regionScores
  /\ smCall.regions["torso"] = smCall.prior.before.smoothedRegions["torso"]
  /\ smCall.regions["torso"] > 0

(***************************************************************************)
(* Claims about the LandmarkSmoother (SpecLandmark).                       *)
(***************************************************************************)

\* The smooth call found no stored set, or one of another length.
Passthrough(call) ==
  /\ call.op = "smooth"
  /\ \/ call.before.previous.isNull
     \/ Len(call.before.previous.landmarks) # Len(call.landmarks)

\* v is alpha * raw + (1 - alpha) * prev, alpha = 0.35, to the nearest unit.
IsLandmarkBlendOf(v, raw, prev) ==
  /\ 20 * v - (7 * raw + 13 * prev) <= 10
  /\ (7 * raw + 13 * prev) - 20 * v <= 10

\* Every point of `out` is the blend of the point of `raw` with the point of
\* `prev`, coordinate by coordinate.
PointsBlend(out, raw, prev) ==
  /\ Len(out) = Len(raw)
  /\ \A i \in 1..Len(raw) :
        /\ IsLandmarkBlendOf(out[i].x, raw[i].x, prev[i].x)
        /\ IsLandmarkBlendOf(out[i].y, raw[i].y, prev[i].y)
        /\ IsLandmarkBlendOf(out[i].z, raw[i].z, prev[i].z)

\* C14: a smooth call that finds no stored set, or a stored set of another
\* length, returns its input as it is and stores it; the next call of the same
\* length is blended with that input, not with the older set.
C14_LengthChangeRestarts ==
  /\ Passthrough(lmCall) =>
       /\ lmCall.returned = lmCall.landmarks
       /\ landmarkSmoother.previous = SomeLandmarks(lmCall.landmarks)
  /\ (lmCall.op = "smooth" /\ Passthrough(lmCall.prior)
        /\ Len(lmCall.landmarks) = Len(lmCall.prior.landmarks)) =>
       /\ lmCall.before.previous = SomeLandmarks(lmCall.prior.landmarks)
       /\ PointsBlend(lmCall.returned, lmCall.landmarks, lmCall.prior.landmarks)

\* C14 witness: a set of two points arrived while a set of one point was
\* stored, and the call after it, again of two points, returned something
\* other than its input: it was blended with the two points stored meanwhile.
C14_Witness ==
  /\ lmCall.op = "smooth"
  /\ Passthrough(lmCall.prior)
  /\ ~lmCall.prior.before.previous.isNull
  /\ Len(lmCall.prior.before.previous.landmarks) = 1
  /\ Len(lmCall.prior.landmarks) = 2
  /\ Len(lmCall.landmarks) = 2
  /\ lmCall.returned # lmCall.landmarks

\* C15: a smooth call that finds a stored set of the same length returns,
\* for every point and each of x, y and z on its own, alpha * raw +
\* (1 - alpha) * stored, with the visibility of the raw point, and stores
\* what it returns; the stored set is always the last output.
C15_SameLengthBlends ==
  /\ (lmCall.op = "smooth" /\ ~Passthrough(lmCall)) =>
       /\ PointsBlend(lmCall.returned, lmCall.landmarks, lmCall.before.previous.landmarks)
       /\ \A i \in 1..Len(lmCall.landmarks) :
             lmCall.returned[i].visibility = lmCall.landmarks[i].visibility
  /\ lmCall.op = "smooth" => landmarkSmoother.previous = SomeLandmarks(lmCall.returned)
  /\ (lmCall.op = "smooth" /\ lmCall.prior.op = "smooth") =>
       lmCall.before.previous = SomeLandmarks(lmCall.prior.returned)

\* C15 witness: the call before returned a set other than its raw input, and
\* this call blended with that output: x lies strictly between raw and stored,
\* and the visibility is the raw one, not the stored one.
C15_Witness ==
  /\ lmCall.op = "smooth" /\ ~Passthrough(lmCall)
  /\ lmCall.prior.op = "smooth"
  /\ lmCall.prior.returned # lmCall.prior.landmarks
  /\ Len(lmCall.landmarks) = 1
  /\ lmCall.landmarks[1].x < lmCall.returned[1].x
  /\ lmCall.returned[1].x < lmCall.before.previous.landmarks[1].x
  /\ lmCall.returned[1].visibility = lmCall.landmarks[1].visibility
  /\ lmCall.returned[1].visibility # lmCall.before.previous.landmarks[1].visibility

\* out lies between prev and target, ends included.
MovesToward(out, prev, target) ==
  /\ prev <= target => (prev <= out /\ out <= target)
  /\ prev >= target => (target <= out /\ out <= prev)

C17_ResetIsFresh ==
  /\ lmCall.op = "reset" => landmarkSmoother = NewLandmarkSmoother
  /\ (lmCall.op = "smooth" /\ lmCall.sinceReset = 1) => lmCall.returned = lmCall.landmarks
  /\ lmCall.op = "smooth" => lmCall.returned = lmCall.twinReturned
  /\ landmarkSmoother = lmTwin

\* C17 witness: after a reset that found a stored set, the second smooth call
\* returned a blend, the same that the twin returned.
C17_Witness ==
  /\ lmCall.op = "smooth"
  /\ lmCall.wasReset /\ lmCall.sinceReset = 2
  /\ lmCall.returned # lmCall.landmarks
  /\ lmCall.returned = lmCall.twinReturned

(***************************************************************************)
(* Claims about the CameraFeed detection loop and sessions (Spec).         *)
(***************************************************************************)

\* The last iteration handed a result to onComparisonUpdate.
GotComparison == frame.ran /\ emitted.calls = 1 /\ ~emitted.result.isNull

\* C18: in an iteration that hands a result to onComparisonUpdate, smooth is
\* called once on the raw live set, comparePoses once on what smooth returned
\* (not on the raw set), update once with the regionScores and overallScore
\* that comparePoses returned, and the result handed over has the angles of
\* comparePoses with the regionScores and overallScore that update returned.
C18_FrameOrder ==
  GotComparison =>
    /\ frame.smoothCalls = 1 /\ frame.compareCalls = 1 /\ frame.updateCalls = 1
    /\ ~frame.raw.isNull /\ ~frame.smoothed.isNull
    /\ lmCall.op = "smooth" =>
         /\ frame.raw = SomeLandmarks(lmCall.landmarks)
         /\ frame.smoothed = SomeLandmarks(lmCall.returned)
    /\ frame.compared = frame.smoothed
    /\ ~frame.comparison.isNull
    /\ frame.updateRegions = frame.comparison.regionScores
    /\ frame.updateOverall = frame.comparison.overallScore
    /\ smCall.op = "update" =>
         /\ smCall.regionScores = frame.comparison.regionScores
         /\ smCall.overallScore = frame.comparison.overallScore
         /\ emitted.result.regionScores = smCall.regions
         /\ emitted.result.overallScore = smCall.overall
    /\ emitted.result.angles = frame.comparison.angles

\* C18 witness: a result was handed over in an iteration whose smoothed live
\* set differs from the raw one and whose smoothed overall score differs from
\* the one comparePoses returned.
C18_Witness ==
  /\ GotComparison
  /\ lmCall.op = "smooth" /\ smCall.op = "update"
  /\ frame.smoothed # frame.raw
  /\ frame.compared = frame.smoothed
  /\ emitted.result.overallScore # frame.comparison.overallScore
  /\ emitted.result.overallScore = smCall.overall

\* The last iteration had no comparison: no reference landmarks, no live
\* pose, or null from comparePoses.
NoComparison ==
  /\ frame.ran
  /\ \/ ~frame.hadRef
     \/ ~frame.detected
     \/ (frame.compareCalls = 1 /\ frame.comparison.isNull)

\* C19: an iteration without reference landmarks, without a live pose, or
\* with null from comparePoses, calls onComparisonUpdate(null), and the loop
\* has scheduled its next frame.
C19_AlwaysEmitsNull ==
  /\ NoComparison => emitted = Emission(NullResult)
  /\ LoopLive => rafPending

\* C19, as the loop has it: when getContext("2d") gives a context, an
\* iteration without reference landmarks, without a live pose, or with null
\* from comparePoses, calls onComparisonUpdate(null) once; when it gives none,
\* the iteration calls neither smooth, comparePoses, update nor
\* onComparisonUpdate; either way the iteration ends by scheduling the next
\* frame.
C19_EmitsNullWithContext ==
  /\ (NoComparison /\ frame.ctx) => emitted = Emission(NullResult)
  /\ (frame.ran /\ ~frame.ctx) =>
       /\ emitted = NoEmission
       /\ frame.smoothCalls = 0 /\ frame.compareCalls = 0 /\ frame.updateCalls = 0
  /\ LoopLive => rafPending

\* C19 witness: with a context, a live pose and reference landmarks,
\* comparePoses returned null; onComparisonUpdate(null) was called and the
\* next frame is scheduled.
C19_Witness ==
  /\ frame.ran /\ frame.ctx /\ frame.detected /\ frame.hadRef
  /\ frame.compareCalls = 1 /\ frame.comparison.isNull
  /\ emitted = Emission(NullResult)
  /\ LoopLive /\ rafPending

\* C20: while isRunning is false both smoothers are as newly constructed (the
\* stop has reset them and nothing has called them since); so the first
\* smooth call of every session returns the raw set, and the first update of
\* every session returns, and the loop hands over, the regionScores and
\* overallScore that comparePoses returned.
C20_SessionsStartCleared ==
  /\ ~isRunning =>
       /\ scoreSmoother = NewScoreSmoother
       /\ landmarkSmoother = NewLandmarkSmoother
  /\ (~isRunning /\ sessions > 0) => (smCall.op = "reset" /\ lmCall.op = "reset")
  /\ (frame.smoothCalls = 1 /\ frame.smoothsInSession = 1) => frame.smoothed = frame.raw
  /\ (frame.updateCalls = 1 /\ frame.updatesInSession = 1) =>
       /\ emitted.result.regionScores = frame.comparison.regionScores
       /\ emitted.result.overallScore = frame.comparison.overallScore

\* C20 witness: in the second session, the first smooth call and the first
\* update came in one iteration; the stop before had cleared another live set
\* and another overall score, and the iteration handed over the raw values.
C20_Witness ==
  /\ sessions = 2
  /\ frame.smoothCalls = 1 /\ frame.smoothsInSession = 1
  /\ frame.updateCalls = 1 /\ frame.updatesInSession = 1
  /\ lmCall.op = "smooth" /\ lmCall.prior.op = "reset"
  /\ ~lmCall.prior.before.previous.isNull
  /\ lmCall.prior.before.previous.landmarks # lmCall.landmarks
  /\ smCall.op = "update" /\ smCall.prior.op = "reset"
  /\ smCall.prior.before.hasData
  /\ smCall.prior.before.smoothedOverall # smCall.overallScore
  /\ frame.smoothed = frame.raw
  /\ emitted.result.overallScore = frame.comparison.overallScore

(***************************************************************************)
(* Claims about the displayed score of App (SpecApp).                      *)
(***************************************************************************)
\* C21: after a pass of the lerp loop that found the target null, the
\* displayed score is null (and not 0); after a pass that found a target
\* while nothing was displayed, the displayed score is the rounded target
\* itself and the ref holds the target; the page shows a score exactly when
\* the ref holds one.
C21_NullShownAsNull ==
  /\ displayScore.isNull = displayScoreRef.isNull
  /\ (appLast.op = "tick" /\ appLast.target.isNull) =>
       (displayScore = NullScore /\ displayScoreRef = NullScore)
  /\ (appLast.op = "tick" /\ ~appLast.target.isNull /\ appLast.current.isNull) =>
       /\ displayScoreRef = appLast.target
       /\ displayScore = SomeScore(MathRound(appLast.target.value))

C21_Witness ==
  /\ appLast.op = "tick"
  /\ appLast.target = SomeScore(100 * AppUnit)
  /\ appLast.current.isNull
  /\ displayScore = SomeScore(100)

(***************************************************************************)
(* Claims about the timestamps of the detection loops (SpecClock).         *)
(***************************************************************************)
\* C30: in each detection loop the timestamps handed to detect are strictly
\* increasing, whatever the clock readings were.
C30_TimestampsIncrease ==
  \A l \in DetectionLoops :
    \A i, j \in 1 .. Len(stamps[l]) :
      i < j => stamps[l][i].timestamp < stamps[l][j].timestamp

C30_Witness ==
  \E l \in DetectionLoops :
    /\ Len(stamps[l]) = MaxStamps
    /\ stamps[l][2].now = stamps[l][1].now
    /\ stamps[l][3].now < stamps[l][2].now

(***************************************************************************)
(* Claims about comparePoses on chosen bodies (SpecCompare).               *)
(***************************************************************************)

\* Every landmark of the set has visibility 1.0.
AllVisible(landmarks) == \A k \in 1..Len(landmarks) : landmarks[k].visibility = 10

\* The entry of the result with the given name (there is one).
EntryNamed(name) == cmpResult.angles[CHOOSE i \in EntriesNamed(name) : TRUE]

\* C22: comparing a set of 33 landmarks, all with visibility 1.0, with itself
\* gives nine entries, each with diff 0 and score 1.0, all five regions with
\* score 1.0, and overallScore 100.
C22_SelfComparisonIsPerfect ==
  (cmpDone /\ cmpRef = cmpUser /\ Len(cmpRef) = NUM_LANDMARKS /\ AllVisible(cmpRef)) =>
    /\ ~cmpResult.isNull
    /\ Len(cmpResult.angles) = 9
    /\ \A i \in 1..Len(cmpResult.angles) :
         cmpResult.angles[i].diff = 0 /\ cmpResult.angles[i].score = ScoreOne
    /\ DOMAIN cmpResult.regionScores = Regions
    /\ \A r \in Regions : cmpResult.regionScores[r] = ScoreOne
    /\ cmpResult.overallScore = 100 * ScoreOne

C22_Witness ==
  /\ cmpDone
  /\ cmpRef = LandmarkSet("elbow135", NUM_LANDMARKS, {}, 0, 10)
  /\ cmpUser = cmpRef
  /\ cmpResult.overallScore = 100 * ScoreOne
  /\ EntryNamed("Left Elbow").refAngle = 135

\* All nine measurements were taken, and the two sets differ in the left elbow
\* alone, which is at 90 degrees in one and at 135 degrees in the other.
OnlyLeftElbowDiffers ==
  /\ cmpDone /\ ~cmpResult.isNull
  /\ Len(cmpResult.angles) = 9
  /\ { EntryNamed("Left Elbow").refAngle, EntryNamed("Left Elbow").userAngle } = {90, 135}
  /\ \A i \in 1..Len(cmpResult.angles) :
       cmpResult.angles[i].name # "Left Elbow" => cmpResult.angles[i].diff = 0

\* C23: with all nine measurements taken and the left elbow at 90 against 135
\* degrees as the only difference, the Left Elbow score is 0.25, leftArm is
\* 0.625, the four other regions are 1.0 and overallScore is 100 * 8.25 / 9.
C23_ElbowOff45 ==
  OnlyLeftElbowDiffers =>
    /\ EntryNamed("Left Elbow").diff = 45
    /\ 4 * EntryNamed("Left Elbow").score = ScoreOne
    /\ 8 * cmpResult.regionScores["leftArm"] = 5 * ScoreOne
    /\ \A r \in Regions \ {"leftArm"} : cmpResult.regionScores[r] = ScoreOne
    /\ cmpResult.overallScore = ((33 * ScoreOne) \div 36) * 100
    /\ 36 * (cmpResult.overallScore \div 100) = 33 * ScoreOne

C23_Witness ==
  /\ OnlyLeftElbowDiffers
  /\ EntryNamed("Left Elbow").refAngle = 90
  /\ EntryNamed("Left Elbow").userAngle = 135
  /\ 8 * cmpResult.regionScores["leftArm"] = 5 * ScoreOne

\* The names of the catalog, in its order.
CatalogOrder ==
  << "Left Elbow", "Right Elbow", "Left Shoulder", "Right Shoulder",
     "Left Knee", "Right Knee", "Left Hip", "Right Hip", "Torso Lean" >>
CatalogIndex(name) == CHOOSE k \in 1..Len(CatalogOrder) : CatalogOrder[k] = name

\* C27: a result has at most nine entries, each a measurement of the catalog,
\* each name at most once, in the order of the catalog; it has all nine when
\* every landmark the catalog reads is visible in both sets.
C27_CatalogOrder ==
  (cmpDone /\ ~cmpResult.isNull) =>
    /\ Len(cmpResult.angles) <= 9
    /\ \A i \in 1..Len(cmpResult.angles) :
         \E k \in 1..Len(CatalogOrder) : CatalogOrder[k] = cmpResult.angles[i].name
    /\ \A i, j \in 1..Len(cmpResult.angles) :
         i < j => CatalogIndex(cmpResult.angles[i].name) < CatalogIndex(cmpResult.angles[j].name)
    /\ SeenInBoth(UsedLandmarks) =>
         [i \in 1..Len(cmpResult.angles) |-> cmpResult.angles[i].name] = CatalogOrder

C27_Witness ==
  /\ cmpDone /\ ~cmpResult.isNull
  /\ [i \in 1..Len(cmpResult.angles) |-> cmpResult.angles[i].name]
       = << "Right Elbow", "Right Shoulder", "Left Knee", "Right Knee", "Right Hip",
            "Torso Lean" >>

(***************************************************************************)
(* Claims about the colour of a scored difference (SpecScore).             *)
(***************************************************************************)
\* The colour tier of an entry of colors.
TierOf(c) ==
  IF c.color = GREEN /\ c.glow.rgb = <<0, 255, 136>> THEN "green"
  ELSE IF c.color = YELLOW /\ c.glow.rgb = <<255, 170, 0>> THEN "yellow"
  ELSE IF c.color = RED /\ c.glow.rgb = <<255, 45, 68>> THEN "red"
  ELSE "mixed"

HadComparison ==
  /\ frame.detected /\ frame.hadRef
  /\ frame.compareCalls = 1 /\ ~frame.comparison.isNull

\* C29: every iteration calls onComparisonUpdate exactly once, with a result
\* exactly when there was a live pose, reference landmarks and a result from
\* comparePoses, and schedules the next iteration.
C29_ExactlyOneCall ==
  /\ frame.ran =>
       /\ emitted.calls = 1
       /\ ~emitted.result.isNull <=> HadComparison
  /\ LoopLive => rafPending

\* C29, as the loop has it: an iteration that got a 2d context calls
\* onComparisonUpdate exactly once, with a result exactly when there was a
\* live pose, reference landmarks and a result from comparePoses; one that got
\* no context calls it not at all; either way the next iteration is scheduled.
C29_OneCallWithContext ==
  /\ (frame.ran /\ frame.ctx) =>
       /\ emitted.calls = 1
       /\ ~emitted.result.isNull <=> HadComparison
  /\ (frame.ran /\ ~frame.ctx) => emitted.calls = 0
  /\ LoopLive => rafPending

C29_Witness ==
  /\ frames = MaxFrames
  /\ frame.ran /\ frame.ctx /\ HadComparison
  /\ emitted.calls = 1 /\ ~emitted.result.isNull
  /\ frame.updatesInSession = 2
  /\ LoopLive /\ rafPending

(***************************************************************************)
(* Claims about calculateAngle (SpecAngle).                                *)
(***************************************************************************)
\* Two points coincide, an undefined z counting as 0.
Coincide(p, q) == p.x = q.x /\ p.y = q.y /\ ZOf(p) = ZOf(q)

\* The point with an undefined z written out as 0.
WithZ(p) == [p EXCEPT !.z = ZOf(p)]

\* No coordinate of the three points is so large that squares overflow.
OnGrid == \A i \in 1..3 : anglePoints[i].x < HugeCoord /\ anglePoints[i].y < HugeCoord

\* A zero ray gives 0, and an undefined z counts as 0.
ZeroRayAndMissingZ ==
  /\ (Coincide(anglePoints[1], anglePoints[2]) \/ Coincide(anglePoints[3], anglePoints[2])) =>
       angleResult.value = 0
  /\ angleResult.value
       = calculateAngle(WithZ(anglePoints[1]), WithZ(anglePoints[2]), WithZ(anglePoints[3]))

\* C24 as stated: a zero ray gives 0, an undefined z counts as 0, and for all
\* finite coordinates the result is a number from 0 to 180.
C24_AlwaysANumber ==
  angleResult.done =>
    /\ ZeroRayAndMissingZ
    /\ angleResult.value \in 0..180

\* C24: a zero ray gives 0, an undefined z counts as 0, and the result is a
\* number from 0 to 180 whenever the sums of squares of both rays are finite.
C24_ANumberWithinRange ==
  angleResult.done =>
    /\ ZeroRayAndMissingZ
    /\ OnGrid => angleResult.value \in 0..180

C24_Witness ==
  /\ angleResult.done
  /\ OnGrid
  /\ anglePoints[1].z = NoZ /\ anglePoints[2].z = 0
  /\ Coincide(anglePoints[1], anglePoints[2])
  /\ ~Coincide(anglePoints[3], anglePoints[2])
  /\ angleResult.value = 0

(***************************************************************************)
(* Claims about changes of coordinates (SpecTransform).                    *)
(***************************************************************************)
\* The entries of the two results measure the same things in the same order.
SameEntries ==
  /\ xfResult.isNull = cmpResult.isNull
  /\ Len(xfResult.angles) = Len(cmpResult.angles)
  /\ \A i \in 1..Len(cmpResult.angles) : xfResult.angles[i].name = cmpResult.angles[i].name

\* Entry i has the same two angles in both results.
SameAngles(i) ==
  /\ xfResult.angles[i].refAngle = cmpResult.angles[i].refAngle
  /\ xfResult.angles[i].userAngle = cmpResult.angles[i].userAngle

\* C25: multiplying the coordinates of the reference set by one positive
\* factor and those of the live set by another leaves the result of
\* comparePoses as it is: every angle, diff, score, region score and the
\* overall score.
C25_ScaleInvariant ==
  (cmpDone /\ xform.kind = "scale") => xfResult = cmpResult

C25_Witness ==
  /\ cmpDone
  /\ xform.kind = "scale" /\ xform.s = 2 /\ xform.t = 3
  /\ ~cmpResult.isNull
  /\ \E i, j \in 1..Len(cmpResult.angles) :
        /\ cmpResult.angles[i].name = "Left Knee" /\ cmpResult.angles[i].diff > 0
        /\ cmpResult.angles[j].name = "Torso Lean" /\ cmpResult.angles[j].diff > 0
  /\ xfResult = cmpResult

C32_GapKeepsSmootherState ==
  [][(frames' = frames + 1 /\ ~HadComparison')
       => /\ scoreSmoother' = scoreSmoother
          /\ ~frame'.detected => landmarkSmoother' = landmarkSmoother]_vars

\* A frame without a pose after a frame with a comparison: both smoothers
\* still hold what the earlier frame left.
C32_Witness ==
  /\ frames = 2
  /\ frame.ran /\ ~frame.detected /\ ~HadComparison
  /\ frame.updatesInSession = 1 /\ frame.smoothsInSession = 1
  /\ scoreSmoother.hasData
  /\ smCall.op = "update" /\ scoreSmoother = ScoreSmootherUpdate(smCall.before, smCall.regionScores, smCall.overallScore)
  /\ ~landmarkSmoother.previous.isNull

\* C33: once the cleanup of the detection-loop effect has run, no callback of
\* that instance of the loop does any work (no detect, smooth, update,
\* onComparisonUpdate or requestAnimationFrame): an iteration runs only for
\* the instance whose `running` is still true, with the session running and
\* the camera active, no callback of a cleaned-up instance stays pending, and
\* at most one instance is live at any time.
C33_NoWorkAfterCleanup ==
  /\ Cardinality(camera.running) <= 1
  /\ camera.running # {} => LoopLive /\ camera.running = {camera.loops}
  /\ rafPending => camera.rafOwner \in camera.running
  /\ frame.ran => frame.live /\ frame.loop >= 1 /\ frame.loop <= camera.loops

\* A second instance of the loop has worked after the first was cleaned up by
\* toggleCamera.
C33_Witness ==
  /\ camera.flips = 1 /\ camera.loops = 2
  /\ camera.running = {2}
  /\ frames = MaxFrames
  /\ frame.ran /\ frame.loop = 2 /\ frame.live
  /\ rafPending

\* C34: whenever isRunning is false and every startCamera call has settled,
\* CameraFeed holds no live camera stream (streamRef is null or its tracks are
\* stopped) and cameraState is not "active".
C34_NoCameraWhenStopped ==
  (~isRunning /\ pendingStarts = 0)
    => camera.streamRef # "live" /\ cameraState # "active"

\* C35: at most one camera stream has running tracks: every stream that
\* streamRef does not hold has had its tracks stopped.
C35_AtMostOneLiveStream == camera.strays = 0

(***************************************************************************)
(* Claims about the trail buffers of drawSkeleton (SpecTrail).             *)
(***************************************************************************)

\* The last n elements of a sequence.
LastFrames(s, n) == IF Len(s) <= n THEN s ELSE SubSeq(s, Len(s) - n + 1, Len(s))

\* C31: after any interleaving of drawSkeleton calls with trailId "camera"
\* and trailId "reference", each trail buffer holds at most 3 frames, and
\* they are the most recent frames drawn with its own trailId, in the order
\* they arrived; a call with one trailId neither adds to, removes from nor
\* reads the buffer of the other.
C31_TrailBuffersApart ==
  /\ \A trailId \in DOMAIN trailBuffers.buffers :
        /\ Len(trailBuffers.buffers[trailId]) <= TRAIL_BUFFER_SIZE
        /\ trailBuffers.buffers[trailId]
             = LastFrames(trailBuffers.arrived[trailId], TRAIL_BUFFER_SIZE)
  /\ \A trailId \in TrailIds \ DOMAIN trailBuffers.buffers :
        trailBuffers.arrived[trailId] = << >>
  /\ trailBuffers.drawn.trailId \in TrailIds =>
        \A i \in 1..Len(trailBuffers.drawn.trail) :
           trailBuffers.drawn.trail[i] \in FramesOf(trailBuffers.drawn.trailId)

\* Both loops have drawn, the camera more than three times, and the last
\* call was the reference loop's and read two earlier frames of its own.
C31_Witness ==
  /\ Len(trailBuffers.arrived["camera"]) > TRAIL_BUFFER_SIZE
  /\ Len(trailBuffers.arrived["reference"]) = 3
  /\ Len(trailBuffers.buffers["camera"]) = TRAIL_BUFFER_SIZE
  /\ trailBuffers.drawn.trailId = "reference"
  /\ Len(trailBuffers.drawn.trail) = 2

(***************************************************************************)
(* Claims about ReferenceVideo (SpecReference).                            *)
(***************************************************************************)

\* Every state update of ReferenceVideo has been rendered.
RefSettled == refVideo.queue = << >> /\ refVideo.playingQueue = << >>

\* C36: no comparison result is emitted while the reference video of the
\* current session is not playing: every onComparisonUpdate call with a
\* result is made while playing is true, and it compares reference landmarks
\* and live landmarks of the same session.
C36_NoStaleComparison ==
  (refVideo.emitted.called /\ ~refVideo.emitted.isNull)
    => /\ refVideo.emitted.playing
       /\ refVideo.emitted.refSession = refVideo.emitted.liveSession

\* C37: playing is true only with the countdown at 0; and once a stop has
\* been rendered, with nothing left to render, countdown is null and playing
\* false.
C37_CountdownAndStop ==
  /\ refVideo.playing => refVideo.countdown = 0
  /\ (~refVideo.isRunning /\ RefSettled)
        => refVideo.countdown = NullCount /\ ~refVideo.playing

\* C37, the part that holds: the countdown goes from null to 3, down by one
\* per timer tick to 0, or to null; playing becomes true only in the render
\* after the countdown has reached 0; and after a stop the countdown is null
\* once everything is rendered, whatever ticks came late.
C37_CountdownSteps ==
  [][/\ refVideo'.countdown # refVideo.countdown
          => \/ refVideo.countdown = NullCount /\ refVideo'.countdown = 3
             \/ refVideo.countdown > 0 /\ refVideo'.countdown = refVideo.countdown - 1
             \/ refVideo'.countdown = NullCount
     /\ (~refVideo.playing /\ refVideo'.playing) => refVideo.countdown = 0
     /\ (~refVideo'.isRunning /\ refVideo'.queue = << >>)
          => refVideo'.countdown = NullCount]_vars

\* The session was stopped during its countdown and a timer tick came after
\* the stop: everything is rendered, and the countdown is null.
C37_Witness ==
  /\ refVideo.session = 1 /\ ~refVideo.isRunning
  /\ refVideo.lateTick
  /\ RefSettled
  /\ refVideo.countdown = NullCount /\ ~refVideo.playing /\ ~refVideo.timer

(***************************************************************************)
(* Claims about usePoseDetector (SpecDetector).                            *)
(***************************************************************************)

\* Every init of the hook has resolved or rejected.
InitsSettled ==
  \A run \in 1..detector.mounts : detector.stage[run] \in {"created", "failed"}

\* C38: every PoseLandmarker that init created is closed once the hook has
\* unmounted and its inits have settled, whichever came first.
C38_EveryLandmarkerClosed ==
  (~detector.mounted /\ InitsSettled)
    => \A run \in 1..detector.mounts : detector.landmarkers[run] # "open"

\* C38, the part that holds: an init that resolves or rejects after its
\* cleanup sets neither landmarkerRef nor isLoading nor error.
C38_LateInitSetsNothing ==
  [][\A run \in 1..detector.mounts :
        (detector.cancelled[run] /\ detector'.stage[run] # detector.stage[run])
          => /\ detector'.landmarkerRef = detector.landmarkerRef
             /\ detector'.isLoading = detector.isLoading
             /\ detector'.error = detector.error]_vars

\* The hook unmounted while its first init was under way, and that init has
\* since created a landmarker: the ref is still null and isLoading still true.
C38_Witness ==
  /\ detector.mounts = 1 /\ ~detector.mounted
  /\ detector.late = {1} /\ detector.stage[1] = "created"
  /\ detector.landmarkerRef = 0 /\ detector.isLoading /\ ~detector.error

====
